---- MODULE Spec2Model ----
(***************************************************************************)
(* Model of the movie explorer: the PaginationControls component (both     *)
(* revisions kept in the repository), the home page that renders two of    *)
(* them, the trailer selection of the media detail page and the detail     *)
(* page's fetch effect.                                                    *)
(***************************************************************************)
EXTENDS Integers, Sequences, FiniteSets, TLC

VARIABLES
  currentPage,    \* prop currentPage of PaginationControls
  totalPages,     \* prop totalPages of PaginationControls
  pageNumbers,    \* sequence rendered by getPageNumbers, PaginationControls with pageQueryParam
  pages,          \* sequence rendered by getPageNumbers, PaginationControls with mandatory basePath
  rendered,       \* the component has rendered its page buttons
  revision,       \* which PaginationControls is mounted: "pageQueryParam" or "basePath"
  basePath,       \* prop basePath ("" when not passed)
  pageQueryParam, \* prop pageQueryParam
  scrollToId,     \* prop scrollToId ("" when not passed)
  pathname,       \* usePathname()
  search,         \* query string of the current URL, read through useSearchParams()
  effectPending,  \* the searchParams effect has to run (mount or dependency change)
  lastOp,         \* the last step of the component: "mount", "goToPage", "previous", "next", "handlePageChange", "effect"
  lastTarget,     \* argument of the last goToPage / handlePageChange call
  pushed,         \* the last step called router.push
  scrolled,       \* the last step called scrollIntoView
  controls,       \* what PaginationControls rendered: nothing, or the state of Previous and Next
  provider,       \* total_pages the provider reports for trending movies and trending TV
  home,           \* locals of HomePage at its last render
  click,          \* section and target of the last goToPage on the home page
  videos,         \* state videos of MediaDetailPage
  mainTrailer,    \* mainTrailer of the last render of MediaDetailPage
  route,          \* useParams(): mediaType and id of the detail page
  media,          \* state media of MediaDetailPage
  loading,        \* state loading of MediaDetailPage
  error,          \* state error of MediaDetailPage
  notFoundCalled, \* the effect called notFound()
  effectDue,      \* the [mediaType, id] effect has to run
  runs,           \* calls of fetchMediaAndVideos, in the order they started
  call,           \* the server-side function that was invoked last, with its arguments
  sent,           \* requests that invocation sent to the provider, in order
  result,         \* what that invocation returned, threw or rendered
  env,            \* process.env when the server module was loaded: (name, value) pairs
  headerRevision, \* which Header is mounted: "scroll" (hides on scroll) or "plain"
  isMobileMenuOpen,     \* state isMobileMenuOpen of Header
  isSearchInputVisible, \* state isSearchInputVisible of Header
  searchTerm,     \* state searchTerm of Header
  isVisible,      \* state isVisible of Header
  lastScrollY,    \* state lastScrollY of Header
  scrollY,        \* window.scrollY
  headerPath,     \* usePathname() of Header
  headerOp,       \* the last event the Header handled
  headerPush,     \* the URL of the last router.push of Header, <<>> when none
  props,          \* props of the mounted ClientImage
  imgSrc,         \* state imgSrc of ClientImage
  imgAlt,         \* state imgAlt of ClientImage
  errored         \* the image has reported a load error

pagesVars == <<currentPage, totalPages, pageNumbers, pages, rendered>>

navVars == <<revision, basePath, pageQueryParam, scrollToId, pathname, search,
             effectPending, lastOp, lastTarget, pushed, scrolled, controls>>

homeVars == <<provider, home, click>>

trailerVars == <<videos, mainTrailer>>

detailVars == <<route, media, loading, error, notFoundCalled, effectDue, runs>>

serverVars == <<call, sent, result, env>>

headerVars == <<headerRevision, isMobileMenuOpen, isSearchInputVisible, searchTerm,
                isVisible, lastScrollY, scrollY, headerPath, headerOp, headerPush>>

imageVars == <<props, imgSrc, imgAlt, errored>>

vars == <<pagesVars, navVars, homeVars, trailerVars, detailVars, serverVars,
          headerVars, imageVars>>

(***************************************************************************)
(* Bounds                                                                  *)
(***************************************************************************)
MaxTotalPages == 20

MaxNavPages == 3

MaxParams == 2

MaxHomePages == 3

MaxVideos == 3

MaxRuns == 2

(***************************************************************************)
(* Page sequence entries: a concrete page number or the ellipsis marker    *)
(***************************************************************************)
Page(i) == [kind |-> "page", n |-> i]

ellipsis == [kind |-> "ellipsis", n |-> 0]

\* for (let i = a; i <= b; i++) push(i)
PushRange(a, b) == [k \in 1..(IF b >= a THEN b - a + 1 ELSE 0) |-> Page(a + k - 1)]

Max(a, b) == IF a >= b THEN a ELSE b

Min(a, b) == IF a <= b THEN a ELSE b

\* variant of getPageNumbers: the last page is not pushed after the window
getPageNumbersNoLast(cp, tp) ==
  LET maxPagesToShow == 7
  IN  IF tp <= maxPagesToShow
      THEN PushRange(1, tp)
      ELSE LET startPage == Max(1, cp - (maxPagesToShow \div 2) + 1)
               endPage   == Min(tp, startPage + maxPagesToShow - 1)
           IN  (IF startPage > 1
                THEN <<Page(1)>> \o (IF startPage > 2 THEN <<ellipsis>> ELSE <<>>)
                ELSE <<>>)
               \o PushRange(startPage, endPage)
               \o (IF endPage < tp
                   THEN (IF endPage < tp - 1 THEN <<ellipsis>> ELSE <<>>)
                   ELSE <<>>)

\* variant of getPageNumbers: show-all only below maxPagesToShow
getPageNumbersStrictLimit(cp, tp) ==
  LET maxPagesToShow == 7
  IN  IF tp < maxPagesToShow
      THEN PushRange(1, tp)
      ELSE LET startPage == Max(1, cp - (maxPagesToShow \div 2) + 1)
               endPage   == Min(tp, startPage + maxPagesToShow - 1)
           IN  (IF startPage > 1
                THEN <<Page(1)>> \o (IF startPage > 2 THEN <<ellipsis>> ELSE <<>>)
                ELSE <<>>)
               \o PushRange(startPage, endPage)
               \o (IF endPage < tp
                   THEN (IF endPage < tp - 1 THEN <<ellipsis>> ELSE <<>>)
                        \o <<Page(tp)>>
                   ELSE <<>>)

\* getPageNumbers of the revision that takes pageQueryParam and scrollToId
getPageNumbers(cp, tp) ==
  LET maxPagesToShow == 7
  IN  IF tp <= maxPagesToShow
      THEN PushRange(1, tp)
      ELSE LET startPage == Max(1, cp - (maxPagesToShow \div 2) + 1)
               endPage   == Min(tp, startPage + maxPagesToShow - 1)
           IN  (IF startPage > 1
                THEN <<Page(1)>> \o (IF startPage > 2 THEN <<ellipsis>> ELSE <<>>)
                ELSE <<>>)
               \o PushRange(startPage, endPage)
               \o (IF endPage < tp
                   THEN (IF endPage < tp - 1 THEN <<ellipsis>> ELSE <<>>)
                        \o <<Page(tp)>>
                   ELSE <<>>)

\* variant of getPageNumbersBasePath: no ellipsis before the window
getPageNumbersBasePathNoLeadingEllipsis(cp, tp) ==
  LET maxPagesToShow == 5
      half     == maxPagesToShow \div 2
      halfUp   == (maxPagesToShow + 1) \div 2
  IN  IF tp <= maxPagesToShow + 2
      THEN PushRange(1, tp)
      ELSE LET startPage0 == Max(2, cp - half)
               endPage0   == Min(tp - 1, cp + half)
               endPage    == IF cp < halfUp + 1 THEN maxPagesToShow ELSE endPage0
               startPage  == IF cp < halfUp + 1 THEN startPage0
                             ELSE IF cp > tp - half THEN tp - maxPagesToShow + 1
                             ELSE startPage0
           IN  <<Page(1)>>
               \o PushRange(startPage, endPage)
               \o (IF endPage < tp - 1 THEN <<ellipsis>> ELSE <<>>)
               \o (IF tp > 1 THEN <<Page(tp)>> ELSE <<>>)

\* getPageNumbers of the revision with the mandatory basePath prop
getPageNumbersBasePath(cp, tp) ==
  LET maxPagesToShow == 5
      half     == maxPagesToShow \div 2             \* Math.floor(maxPagesToShow / 2)
      halfUp   == (maxPagesToShow + 1) \div 2       \* Math.ceil(maxPagesToShow / 2)
  IN  IF tp <= maxPagesToShow + 2
      THEN PushRange(1, tp)
      ELSE LET startPage0 == Max(2, cp - half)
               endPage0   == Min(tp - 1, cp + half)
               endPage    == IF cp < halfUp + 1 THEN maxPagesToShow ELSE endPage0
               startPage  == IF cp < halfUp + 1 THEN startPage0
                             ELSE IF cp > tp - half THEN tp - maxPagesToShow + 1
                             ELSE startPage0
           IN  <<Page(1)>>
               \o (IF startPage > 2 THEN <<ellipsis>> ELSE <<>>)
               \o PushRange(startPage, endPage)
               \o (IF endPage < tp - 1 THEN <<ellipsis>> ELSE <<>>)
               \o (IF tp > 1 THEN <<Page(tp)>> ELSE <<>>)

\* the navigation part of the state while only the page sequence is studied
NavIdle ==
  /\ revision = "pageQueryParam"
  /\ basePath = ""
  /\ pageQueryParam = "page"
  /\ scrollToId = ""
  /\ pathname = "/"
  /\ search = <<>>
  /\ effectPending = FALSE
  /\ lastOp = "mount"
  /\ lastTarget = 0
  /\ pushed = FALSE
  /\ scrolled = FALSE
  /\ controls = [nothing |-> TRUE]

\* the home page part of the state while the home page is not studied
HomeIdle ==
  /\ provider = [movie |-> 0, tv |-> 0]
  /\ home = [mounted |-> FALSE]
  /\ click = [section |-> "none"]

\* the trailer part of the state while the detail page is not studied
TrailerIdle ==
  /\ videos = <<>>
  /\ mainTrailer = [rendered |-> FALSE]

\* the JavaScript null
null == [null |-> TRUE]

\* the detail page part of the state while the detail page is not studied
DetailIdle ==
  /\ route = [mediaType |-> "", id |-> ""]
  /\ media = null
  /\ loading = TRUE
  /\ error = null
  /\ notFoundCalled = FALSE
  /\ effectDue = FALSE
  /\ runs = <<>>

\* the server part of the state while no server-side function is studied
ServerIdle ==
  /\ call = [handler |-> "none"]
  /\ sent = <<>>
  /\ result = null
  /\ env = <<<<<<"TMDB_API_KEY">>, <<"k">>>>>>

\* the header part of the state while the header is not studied
HeaderIdle ==
  /\ headerRevision = "scroll"
  /\ isMobileMenuOpen = FALSE
  /\ isSearchInputVisible = FALSE
  /\ searchTerm = <<>>
  /\ isVisible = TRUE
  /\ lastScrollY = 0
  /\ scrollY = 0
  /\ headerPath = "/"
  /\ headerOp = "mount"
  /\ headerPush = <<>>

\* the image part of the state while no image is studied
ImageIdle ==
  /\ props = [mounted |-> FALSE]
  /\ imgSrc = <<>>
  /\ imgAlt = <<>>
  /\ errored = FALSE

(***************************************************************************)
(* SpecPages: the page sequence as a function of the two props             *)
(***************************************************************************)
InitPages ==
  /\ totalPages \in 0..MaxTotalPages
  /\ currentPage \in 0..(MaxTotalPages + 1)
  /\ pageNumbers = <<>>
  /\ pages = <<>>
  /\ rendered = FALSE
  /\ NavIdle
  /\ HomeIdle
  /\ TrailerIdle
  /\ DetailIdle
  /\ ServerIdle
  /\ HeaderIdle
  /\ ImageIdle

\* const pageNumbersToDisplay = getPageNumbers();  /  getPageNumbers().map(...)
Render ==
  /\ ~rendered
  /\ rendered' = TRUE
  /\ pageNumbers' = getPageNumbers(currentPage, totalPages)
  /\ pages' = getPageNumbersBasePath(currentPage, totalPages)
  /\ UNCHANGED <<currentPage, totalPages>>
  /\ UNCHANGED navVars
  /\ UNCHANGED homeVars
  /\ UNCHANGED trailerVars
  /\ UNCHANGED detailVars
  /\ UNCHANGED serverVars
  /\ UNCHANGED <<headerVars, imageVars>>

NextPages == Render

SpecPages == InitPages /\ [][NextPages]_vars

(***************************************************************************)
(* Helpers of the page sequence claims                                     *)
(***************************************************************************)
Last(s) == s[Len(s)]

CountEllipsis(s) == Cardinality({i \in 1..Len(s) : s[i] = ellipsis})

Contains(s, e) == \E i \in 1..Len(s) : s[i] = e

InRange == 1 <= currentPage /\ currentPage <= totalPages

StartsEndsContains(s) ==
  /\ Len(s) > 0
  /\ Head(s) = Page(1)
  /\ Last(s) = Page(totalPages)
  /\ Contains(s, Page(currentPage))
  /\ CountEllipsis(s) <= 2

\* C1: for totalPages > 7 and 1 <= currentPage <= totalPages the rendered
\* sequence starts with page 1, ends with page totalPages, contains
\* currentPage and has at most 2 ellipsis markers (both revisions).
C1_StartEndCurrent ==
  (rendered /\ totalPages > 7 /\ InRange)
    => (StartsEndsContains(pageNumbers) /\ StartsEndsContains(pages))

C1_Witness ==
  /\ rendered /\ totalPages = 20 /\ currentPage = 8
  /\ CountEllipsis(pageNumbers) = 2 /\ CountEllipsis(pages) = 2

\* C2: for totalPages <= 7 and any currentPage the rendered sequence is
\* exactly 1, 2, ..., totalPages with no ellipsis marker (both revisions).
C2_AllPagesWhenFew ==
  (rendered /\ totalPages <= 7)
    => (/\ pageNumbers = PushRange(1, totalPages)
        /\ pages = PushRange(1, totalPages)
        /\ CountEllipsis(pageNumbers) = 0
        /\ CountEllipsis(pages) = 0)

C2_Witness ==
  /\ rendered /\ totalPages = 5 /\ currentPage = 2
  /\ pageNumbers = <<Page(1), Page(2), Page(3), Page(4), Page(5)>>
  /\ pages = <<Page(1), Page(2), Page(3), Page(4), Page(5)>>

\* page 1, one ellipsis, currentPage-2 .. currentPage+2, one ellipsis, totalPages
CenteredWindow(cp, tp) ==
  <<Page(1), ellipsis>> \o PushRange(cp - 2, cp + 2) \o <<ellipsis, Page(tp)>>

FarFromEnds == totalPages > 7 /\ 4 < currentPage /\ currentPage < totalPages - 3

\* C3: for totalPages > 7 and 4 < currentPage < totalPages - 3 the rendered
\* sequence is page 1, an ellipsis, the five pages currentPage-2 ..
\* currentPage+2, an ellipsis and page totalPages (both revisions).
C3_CenteredWindow ==
  (rendered /\ FarFromEnds)
    => (/\ pageNumbers = CenteredWindow(currentPage, totalPages)
        /\ pages = CenteredWindow(currentPage, totalPages))

\* the part of C3 that the revision with the mandatory basePath satisfies
C3_BasePathRevisionCentered ==
  (rendered /\ FarFromEnds) => pages = CenteredWindow(currentPage, totalPages)

BeginsWith(s, prefix) ==
  Len(s) >= Len(prefix) /\ SubSeq(s, 1, Len(prefix)) = prefix

EndsWith(s, suffix) ==
  Len(s) >= Len(suffix) /\ SubSeq(s, Len(s) - Len(suffix) + 1, Len(s)) = suffix

CountPages(s) == Cardinality({i \in 1..Len(s) : s[i].kind = "page"})

ShiftedWindow(s) ==
  /\ currentPage <= 4 => BeginsWith(s, PushRange(1, 5))
  /\ currentPage >= totalPages - 3 =>
       EndsWith(s, PushRange(totalPages - 4, totalPages))

\* C4: for totalPages > 7 the window is shifted, not truncated: for
\* currentPage <= 4 the sequence begins with pages 1..5, for currentPage >=
\* totalPages - 3 it ends with pages totalPages-4 .. totalPages, and the
\* number of page buttons differs by at most 1 over all current pages
\* (both revisions).
C4_WindowShifted ==
  (rendered /\ totalPages > 7 /\ InRange)
    => (/\ ShiftedWindow(pageNumbers)
        /\ ShiftedWindow(pages)
        /\ \A c \in 1..totalPages :
             /\ CountPages(pageNumbers) - CountPages(getPageNumbers(c, totalPages)) \in -1..1
             /\ CountPages(pages) - CountPages(getPageNumbersBasePath(c, totalPages)) \in -1..1)

\* the part of C4 that the revision with the mandatory basePath satisfies
C4_BasePathRevisionShifted ==
  (rendered /\ totalPages > 7 /\ InRange)
    => (/\ ShiftedWindow(pages)
        /\ \A c \in 1..totalPages :
             CountPages(pages) - CountPages(getPageNumbersBasePath(c, totalPages)) \in -1..1)

(***************************************************************************)
(* Strings are sequences of symbols. A symbol is one character, or a run   *)
(* of letters ("page", "moviePage") that no code of the model ever splits. *)
(***************************************************************************)
Digits == <<"0", "1", "2", "3", "4", "5", "6", "7", "8", "9">>

DigitSet == {Digits[i] : i \in 1..10}

DigitVal(c) == (CHOOSE i \in 1..10 : Digits[i] = c) - 1

\* page.toString() / String(page)
RECURSIVE toString(_)
toString(n) ==
  IF n < 0 THEN <<"-">> \o toString(0 - n)
  ELSE IF n < 10 THEN <<Digits[n + 1]>>
  ELSE toString(n \div 10) \o <<Digits[(n % 10) + 1]>>

\* characters that the form-urlencoded serializer percent-encodes
Reserved == {"&", "=", "%", "+", " "}

PercentCode(c) ==
  CASE c = " " -> <<"+">>
    [] c = "%" -> <<"%", "2", "5">>
    [] c = "&" -> <<"%", "2", "6">>
    [] c = "+" -> <<"%", "2", "B">>
    [] c = "=" -> <<"%", "3", "D">>
    [] OTHER   -> <<c>>

RECURSIVE urlencode(_)
urlencode(s) ==
  IF s = <<>> THEN <<>> ELSE PercentCode(Head(s)) \o urlencode(Tail(s))

\* the byte written %XY, for the bytes of the reserved characters
HexPairs == {<<"2", "5">>, <<"2", "6">>, <<"2", "B">>, <<"3", "D">>, <<"2", "0">>}

FromHex(h) ==
  CASE h = <<"2", "5">> -> "%"
    [] h = <<"2", "6">> -> "&"
    [] h = <<"2", "B">> -> "+"
    [] h = <<"3", "D">> -> "="
    [] h = <<"2", "0">> -> " "

RECURSIVE urldecode(_)
urldecode(s) ==
  IF s = <<>> THEN <<>>
  ELSE IF Head(s) = "+" THEN <<" ">> \o urldecode(Tail(s))
  ELSE IF Head(s) = "%" /\ Len(s) >= 3 /\ <<s[2], s[3]>> \in HexPairs
       THEN <<FromHex(<<s[2], s[3]>>)>> \o urldecode(SubSeq(s, 4, Len(s)))
  ELSE <<Head(s)>> \o urldecode(Tail(s))

\* position of the first sep in s, 0 when there is none
IndexOf(s, sep) ==
  IF \E i \in 1..Len(s) : s[i] = sep
  THEN CHOOSE i \in 1..Len(s) : s[i] = sep /\ \A j \in 1..(i - 1) : s[j] # sep
  ELSE 0

RECURSIVE SplitOn(_, _)
SplitOn(s, sep) ==
  LET i == IndexOf(s, sep)
  IN  IF i = 0 THEN <<s>>
      ELSE <<SubSeq(s, 1, i - 1)>> \o SplitOn(SubSeq(s, i + 1, Len(s)), sep)

\* one name=value piece of a query string
ParsePair(piece) ==
  LET i == IndexOf(piece, "=")
  IN  IF i = 0 THEN <<urldecode(piece), <<>>>>
      ELSE <<urldecode(SubSeq(piece, 1, i - 1)),
             urldecode(SubSeq(piece, i + 1, Len(piece)))>>

RECURSIVE ParsePieces(_)
ParsePieces(ps) ==
  IF ps = <<>> THEN <<>>
  ELSE IF Head(ps) = <<>> THEN ParsePieces(Tail(ps))
  ELSE <<ParsePair(Head(ps))>> \o ParsePieces(Tail(ps))

\* new URLSearchParams(string): the list of (name, value) pairs
URLSearchParams(s) == ParsePieces(SplitOn(s, "&"))

\* URLSearchParams.prototype.toString
RECURSIVE paramsToString(_)
paramsToString(params) ==
  IF params = <<>> THEN <<>>
  ELSE urlencode(Head(params)[1]) \o <<"=">> \o urlencode(Head(params)[2])
       \o (IF Tail(params) = <<>> THEN <<>> ELSE <<"&">> \o paramsToString(Tail(params)))

has(params, name) == \E i \in 1..Len(params) : params[i][1] = name

\* URLSearchParams.prototype.get, for a name the list has
get(params, name) ==
  params[CHOOSE i \in 1..Len(params) :
           params[i][1] = name /\ \A j \in 1..(i - 1) : params[j][1] # name][2]

\* URLSearchParams.prototype.set: the first pair of that name takes the
\* value, the other pairs of that name are removed; appended when absent
RECURSIVE dropName(_, _)
dropName(params, name) ==
  IF params = <<>> THEN <<>>
  ELSE IF Head(params)[1] = name THEN dropName(Tail(params), name)
  ELSE <<Head(params)>> \o dropName(Tail(params), name)

RECURSIVE set(_, _, _)
set(params, name, value) ==
  IF params = <<>> THEN <<<<name, value>>>>
  ELSE IF Head(params)[1] = name
       THEN <<<<name, value>>>> \o dropName(Tail(params), name)
  ELSE <<Head(params)>> \o set(Tail(params), name, value)

\* String.prototype.trim on the blanks of the alphabet
RECURSIVE TrimLeft(_)
TrimLeft(s) == IF s # <<>> /\ Head(s) = " " THEN TrimLeft(Tail(s)) ELSE s

RECURSIVE TrimRight(_)
TrimRight(s) ==
  IF s # <<>> /\ s[Len(s)] = " " THEN TrimRight(SubSeq(s, 1, Len(s) - 1)) ELSE s

RECURSIVE digitsValue(_)
digitsValue(s) ==
  IF s = <<>> THEN 0
  ELSE digitsValue(SubSeq(s, 1, Len(s) - 1)) * 10 + DigitVal(s[Len(s)])

NaN == [nan |-> TRUE, v |-> 0]

\* Number(string): blanks trimmed, "" is 0, an optional sign and decimal
\* digits; anything else over the alphabet is NaN
Number(s) ==
  LET t    == TrimRight(TrimLeft(s))
      body == IF t # <<>> /\ Head(t) \in {"-", "+"} THEN Tail(t) ELSE t
      val  == digitsValue(body)
  IN  IF t = <<>> THEN [nan |-> FALSE, v |-> 0]
      ELSE IF body # <<>> /\ \A i \in 1..Len(body) : body[i] \in DigitSet
           THEN [nan |-> FALSE, v |-> IF Head(t) = "-" THEN 0 - val ELSE val]
      ELSE NaN

(***************************************************************************)
(* PaginationControls: navigation                                          *)
(***************************************************************************)
\* ids of the elements of the document
Document == {"trending-movies-section", "trending-tv-shows-section"}

\* variant of createPageURL: starts from empty parameters
createPageURLDropOthers(searchStr, path, base, key, page) ==
  LET params == set(<<>>, <<key>>, toString(page))
  IN  [pathname |-> IF base # "" THEN base ELSE path,
       search   |-> paramsToString(params)]

\* createPageURL of the revision with pageQueryParam
createPageURL(searchStr, path, base, key, page) ==
  LET searchParams == URLSearchParams(searchStr)
      params == set(URLSearchParams(paramsToString(searchParams)), <<key>>, toString(page))
  IN  [pathname |-> IF base # "" THEN base ELSE path,
       search   |-> paramsToString(params)]

\* createPageUrl of the revision with the mandatory basePath
createPageUrl(searchStr, base, page) ==
  LET searchParams == URLSearchParams(searchStr)
      isSearchPage == base = "/search"
      hasQuery == isSearchPage /\ has(searchParams, <<"query">>)
                    /\ get(searchParams, <<"query">>) # <<>>
      params0 == set(<<>>, <<"page">>, toString(page))
      params == IF hasQuery
                THEN set(params0, <<"query">>, get(searchParams, <<"query">>))
                ELSE params0
  IN  [pathname |-> base, search |-> paramsToString(params)]

\* scrollToElement calls scrollIntoView
scrollToElement(id) == id # "" /\ id \in Document

\* variant of canGoToPage: page 0 passes
canGoToPageFromZero(page, tp) == page >= 0 /\ page <= tp

\* if (page >= 1 && page <= totalPages) of goToPage
canGoToPage(page, tp) == page >= 1 /\ page <= tp

\* if (newPage >= 1 && newPage <= totalPages) of handlePageChange
canChangePage(newPage, tp) == newPage >= 1 /\ newPage <= tp

\* goToPage(page), called by the button op
goToPageFrom(op, page) ==
  /\ revision = "pageQueryParam"
  /\ lastOp' = op
  /\ lastTarget' = page
  /\ IF canGoToPage(page, totalPages)
     THEN LET url == createPageURL(search, pathname, basePath, pageQueryParam, page)
          IN  /\ pathname' = url.pathname
              /\ search' = url.search
              /\ pushed' = TRUE
              /\ scrolled' = scrollToElement(scrollToId)
              /\ effectPending' = (effectPending \/ url.search # search)
     ELSE /\ pushed' = FALSE
          /\ scrolled' = FALSE
          /\ UNCHANGED <<pathname, search, effectPending>>
  /\ UNCHANGED <<revision, basePath, pageQueryParam, scrollToId, controls>>
  /\ UNCHANGED pagesVars
  /\ UNCHANGED homeVars
  /\ UNCHANGED trailerVars
  /\ UNCHANGED detailVars
  /\ UNCHANGED serverVars
  /\ UNCHANGED <<headerVars, imageVars>>

\* a call of goToPage from a page number button
goToPage(page) == goToPageFrom("goToPage", page)

\* if (totalPages <= 1) return null
rendersNothing(tp) == tp <= 1

\* variant of previousDisabled: disabled only below page 1
previousDisabledBelowOne(cp) == cp < 1

\* disabled={currentPage <= 1} of the Previous button
previousDisabled(cp) == cp <= 1

\* disabled={currentPage >= totalPages} of the Next button
nextDisabled(cp, tp) == cp >= tp

\* what the component renders: nothing, or Previous and Next with their
\* disabled attributes; the revision with the mandatory basePath always
\* renders and compares with ===
renderControls(rev, cp, tp) ==
  IF rev = "pageQueryParam"
  THEN (IF rendersNothing(tp)
        THEN [nothing |-> TRUE]
        ELSE [nothing |-> FALSE,
              previousDisabled |-> previousDisabled(cp),
              nextDisabled |-> nextDisabled(cp, tp)])
  ELSE [nothing |-> FALSE, previousDisabled |-> cp = 1, nextDisabled |-> cp = tp]

\* a click on the Previous button: onClick={() => goToPage(currentPage - 1)}
ClickPrevious ==
  /\ ~controls.nothing
  /\ ~controls.previousDisabled
  /\ goToPageFrom("previous", currentPage - 1)

\* a click on the Next button: onClick={() => goToPage(currentPage + 1)}
ClickNext ==
  /\ ~controls.nothing
  /\ ~controls.nextDisabled
  /\ goToPageFrom("next", currentPage + 1)

handlePageChange(newPage) ==
  /\ revision = "basePath"
  /\ lastOp' = "handlePageChange"
  /\ lastTarget' = newPage
  /\ IF canChangePage(newPage, totalPages)
     THEN LET url == createPageUrl(search, basePath, newPage)
          IN  /\ pathname' = url.pathname
              /\ search' = url.search
              /\ pushed' = TRUE
     ELSE /\ pushed' = FALSE
          /\ UNCHANGED <<pathname, search>>
  /\ scrolled' = FALSE
  /\ UNCHANGED <<revision, basePath, pageQueryParam, scrollToId, effectPending, controls>>
  /\ UNCHANGED pagesVars
  /\ UNCHANGED homeVars
  /\ UNCHANGED trailerVars
  /\ UNCHANGED detailVars
  /\ UNCHANGED serverVars
  /\ UNCHANGED <<headerVars, imageVars>>

\* useEffect on [searchParams, pageQueryParam, scrollToElement]
ScrollEffect ==
  /\ revision = "pageQueryParam"
  /\ effectPending
  /\ effectPending' = FALSE
  /\ lastOp' = "effect"
  /\ pushed' = FALSE
  /\ LET searchParams == URLSearchParams(search)
         present == has(searchParams, <<pageQueryParam>>)
                      /\ get(searchParams, <<pageQueryParam>>) # <<>>
         n == IF present THEN Number(get(searchParams, <<pageQueryParam>>)) ELSE NaN
     IN  scrolled' = (present /\ ~n.nan /\ n.v > 1 /\ scrollToElement(scrollToId))
  /\ UNCHANGED <<revision, basePath, pageQueryParam, scrollToId, pathname, search, lastTarget,
                 controls>>
  /\ UNCHANGED pagesVars
  /\ UNCHANGED homeVars
  /\ UNCHANGED trailerVars
  /\ UNCHANGED detailVars
  /\ UNCHANGED serverVars
  /\ UNCHANGED <<headerVars, imageVars>>

\* query parameters of the URL the component is mounted on
InitPairs ==
  { <<<<"page">>, <<"2">>>>,
    <<<<"tvPage">>, <<"3">>>>,
    <<<<"query">>, <<"a", "&", "b", "=", " ", "+", "%">>>>,
    <<<<"query">>, <<>>>> }

InitParams == UNION {[1..n -> InitPairs] : n \in 0..MaxParams}

\* props the pages of the repository pass: defaults, the home page's movie
\* section, the popular movies page
CallSites ==
  { <<"", "page", "">>,
    <<"", "moviePage", "trending-movies-section">>,
    <<"/movie/popular", "page", "">> }

InitNav ==
  /\ totalPages \in 0..MaxNavPages
  /\ currentPage \in 0..(totalPages + 1)
  /\ revision \in {"pageQueryParam", "basePath"}
  /\ IF revision = "pageQueryParam"
     THEN /\ \E site \in CallSites :
               basePath = site[1] /\ pageQueryParam = site[2] /\ scrollToId = site[3]
          /\ effectPending = TRUE
     ELSE /\ basePath \in {"/", "/search"}
          /\ pageQueryParam = "page"
          /\ scrollToId = ""
          /\ effectPending = FALSE
  /\ pathname = "/"
  /\ \E params \in InitParams : search = paramsToString(params)
  /\ lastOp = "mount"
  /\ lastTarget = 0
  /\ pushed = FALSE
  /\ scrolled = FALSE
  /\ controls = renderControls(revision, currentPage, totalPages)
  /\ rendered = TRUE
  /\ pageNumbers = getPageNumbers(currentPage, totalPages)
  /\ pages = getPageNumbersBasePath(currentPage, totalPages)
  /\ HomeIdle
  /\ TrailerIdle
  /\ DetailIdle
  /\ ServerIdle
  /\ HeaderIdle
  /\ ImageIdle

NextNav ==
  \/ \E page \in 0..(totalPages + 1) : goToPage(page)
  \/ \E newPage \in 0..(totalPages + 1) : handlePageChange(newPage)
  \/ ScrollEffect
  \/ ClickPrevious
  \/ ClickNext

SpecNav == InitNav /\ [][NextNav]_vars

IsCall(op) == op \in {"goToPage", "handlePageChange", "previous", "next"}

\* C5: goToPage(target) / handlePageChange(target) with target < 1 or
\* target > totalPages pushes no route and scrolls nothing, whatever
\* currentPage is: pathname and query string stay as they were.
C5_OutOfRangeNoOp ==
  [][(IsCall(lastOp') /\ (lastTarget' < 1 \/ lastTarget' > totalPages))
       => (pathname' = pathname /\ search' = search /\ ~pushed' /\ ~scrolled')]_vars

C5_Witness ==
  /\ lastOp = "goToPage" /\ lastTarget = totalPages + 1 /\ totalPages >= 2
  /\ currentPage = totalPages /\ scrollToId # "" /\ ~pushed /\ ~scrolled

\* values of the pairs named name, in list order
RECURSIVE getAll(_, _)
getAll(params, name) ==
  IF params = <<>> THEN <<>>
  ELSE (IF Head(params)[1] = name THEN <<Head(params)[2]>> ELSE <<>>)
       \o getAll(Tail(params), name)

Names(params) == {params[i][1] : i \in 1..Len(params)}

OthersKept(old, new, key) ==
  \A name \in Names(old) \ {key} : getAll(new, name) = getAll(old, name)

\* C6: the URL pushed for an in-range target carries every query parameter
\* of the current URL with its value unchanged, except the page key, whose
\* value is the target page (both revisions).
C6_ParamsPreserved ==
  [][(IsCall(lastOp') /\ pushed')
       => (/\ OthersKept(URLSearchParams(search), URLSearchParams(search'), <<pageQueryParam>>)
           /\ getAll(URLSearchParams(search'), <<pageQueryParam>>) = <<toString(lastTarget')>>)]_vars

\* the part of C6 that the revision with pageQueryParam satisfies
C6_QueryParamRevisionPreserves ==
  [][(lastOp' = "goToPage" /\ pushed')
       => (/\ OthersKept(URLSearchParams(search), URLSearchParams(search'), <<pageQueryParam>>)
           /\ getAll(URLSearchParams(search'), <<pageQueryParam>>) = <<toString(lastTarget')>>)]_vars

(***************************************************************************)
(* HomePage with its two PaginationControls (moviePage, tvPage)            *)
(***************************************************************************)
Num(n) == [nan |-> FALSE, v |-> n]

\* a <= n, a >= n and a + n on numbers that may be NaN
numLE(a, n) == ~a.nan /\ a.v <= n

numGE(a, n) == ~a.nan /\ a.v >= n

numAdd(a, n) == IF a.nan THEN NaN ELSE Num(a.v + n)

\* Number(resolvedParams?.key ?? '1'): a repeated key arrives as an array
pageParam(params, key) ==
  LET values == getAll(params, <<key>>)
  IN  IF values = <<>> THEN Number(<<"1">>)
      ELSE IF Len(values) = 1 THEN Number(values[1])
      ELSE NaN

\* the provider's answer to getTrendingMovies(page) / getTrendingTvShows(page)
fetchFromTmdb(endpoint, page, total) ==
  [endpoint |-> endpoint, page |-> page, total_pages |-> total]

\* one server render of HomePage for a query string
HomePage(searchStr, prov) ==
  LET resolvedParams == URLSearchParams(searchStr)
      currentMoviePage == pageParam(resolvedParams, "moviePage")
      currentTvPage == pageParam(resolvedParams, "tvPage")
      trendingMoviesData == fetchFromTmdb("/trending/movie/week", currentMoviePage, prov.movie)
      trendingTvShowsData == fetchFromTmdb("/trending/tv/week", currentTvPage, prov.tv)
  IN  [mounted |-> TRUE,
       currentMoviePage |-> currentMoviePage,
       currentTvPage |-> currentTvPage,
       trendingMoviesData |-> trendingMoviesData,
       trendingTvShowsData |-> trendingTvShowsData,
       totalMoviePages |-> IF trendingMoviesData.total_pages = 0 THEN 1
                           ELSE trendingMoviesData.total_pages,
       totalTvPages |-> IF trendingTvShowsData.total_pages = 0 THEN 1
                        ELSE trendingTvShowsData.total_pages]

\* getPageNumbers for a currentPage that may be NaN: every comparison with
\* NaN is false and no loop body runs
getPageNumbersOf(cp, tp) ==
  IF ~cp.nan THEN getPageNumbers(cp.v, tp)
  ELSE IF tp <= 7 THEN PushRange(1, tp)
  ELSE <<>>

\* targets of the enabled buttons of one PaginationControls
Buttons(cp, tp) ==
  IF tp <= 1 THEN {}
  ELSE (IF numLE(cp, 1) THEN {} ELSE {numAdd(cp, 0 - 1)})
       \union (IF numGE(cp, tp) THEN {} ELSE {numAdd(cp, 1)})
       \union {Num(getPageNumbersOf(cp, tp)[i].n) :
                 i \in {j \in 1..Len(getPageNumbersOf(cp, tp)) :
                          getPageNumbersOf(cp, tp)[j].kind = "page"}}

\* goToPage of the PaginationControls of one section, then the render of
\* HomePage for the URL that was pushed
HomeGoToPage(section, key, scrollId, cp, tp, page) ==
  /\ page \in Buttons(cp, tp)
  /\ click' = [section |-> section, target |-> page]
  /\ IF ~page.nan /\ canGoToPage(page.v, tp)
     THEN LET url == createPageURL(search, pathname, "", key, page.v)
          IN  /\ pathname' = url.pathname
              /\ search' = url.search
              /\ pushed' = TRUE
              /\ scrolled' = scrollToElement(scrollId)
              /\ home' = HomePage(url.search, provider)
     ELSE /\ pushed' = FALSE
          /\ scrolled' = FALSE
          /\ UNCHANGED <<pathname, search, home>>
  /\ UNCHANGED <<provider, revision, basePath, pageQueryParam, scrollToId,
                 effectPending, lastOp, lastTarget, controls>>
  /\ UNCHANGED pagesVars
  /\ UNCHANGED trailerVars
  /\ UNCHANGED detailVars
  /\ UNCHANGED serverVars
  /\ UNCHANGED <<headerVars, imageVars>>

MovieGoToPage(page) ==
  HomeGoToPage("movie", "moviePage", "trending-movies-section",
               home.currentMoviePage, home.totalMoviePages, page)

TvGoToPage(page) ==
  HomeGoToPage("tv", "tvPage", "trending-tv-shows-section",
               home.currentTvPage, home.totalTvPages, page)

\* query parameters of the URL the home page is opened with
HomePairs ==
  { <<<<"moviePage">>, <<"2">>>>,
    <<<<"moviePage">>, <<"0">>>>,
    <<<<"tvPage">>, <<"3">>>>,
    <<<<"tvPage">>, <<"-", "1">>>>,
    <<<<"tvPage">>, <<"x">>>>,
    <<<<"lang">>, <<"e", "n">>>> }

HomeParams == UNION {[1..n -> HomePairs] : n \in 0..MaxParams}

HomeTargets == {Num(n) : n \in (0 - 2)..(MaxHomePages + 4)} \union {NaN}

InitHome ==
  /\ provider \in [movie : 0..MaxHomePages, tv : 0..MaxHomePages]
  /\ pathname = "/"
  /\ \E params \in HomeParams : search = paramsToString(params)
  /\ home = HomePage(search, provider)
  /\ click = [section |-> "none"]
  /\ revision = "pageQueryParam"
  /\ basePath = ""
  /\ pageQueryParam = "page"
  /\ scrollToId = ""
  /\ effectPending = FALSE
  /\ lastOp = "mount"
  /\ lastTarget = 0
  /\ pushed = FALSE
  /\ scrolled = FALSE
  /\ controls = [nothing |-> TRUE]
  /\ currentPage = 1
  /\ totalPages = 1
  /\ pageNumbers = <<>>
  /\ pages = <<>>
  /\ rendered = FALSE
  /\ TrailerIdle
  /\ DetailIdle
  /\ ServerIdle
  /\ HeaderIdle
  /\ ImageIdle

NextHome ==
  \/ \E page \in HomeTargets : MovieGoToPage(page)
  \/ \E page \in HomeTargets : TvGoToPage(page)

SpecHome == InitHome /\ [][NextHome]_vars

\* C7: on the home page a navigation in the movie section leaves the tvPage
\* parameter, currentTvPage and the TV list fetched as they were, and a
\* navigation in the TV section leaves moviePage, currentMoviePage and the
\* movie list fetched as they were.
C7_SectionsIndependent ==
  [][/\ click'.section = "movie" =>
          /\ home'.currentTvPage = home.currentTvPage
          /\ home'.trendingTvShowsData = home.trendingTvShowsData
          /\ getAll(URLSearchParams(search'), <<"tvPage">>)
               = getAll(URLSearchParams(search), <<"tvPage">>)
     /\ click'.section = "tv" =>
          /\ home'.currentMoviePage = home.currentMoviePage
          /\ home'.trendingMoviesData = home.trendingMoviesData
          /\ getAll(URLSearchParams(search'), <<"moviePage">>)
               = getAll(URLSearchParams(search), <<"moviePage">>)]_vars

C7_Witness ==
  /\ click.section = "movie" /\ pushed
  /\ search = <<"tvPage", "=", "3", "&", "moviePage", "=", "2">>
  /\ home.currentTvPage = Num(3) /\ home.trendingTvShowsData.page = Num(3)
  /\ home.currentMoviePage = Num(2)

(***************************************************************************)
(* MediaDetailPage: the main trailer                                       *)
(***************************************************************************)
\* what Array.prototype.find returns when no element matches
undefined == [undefined |-> TRUE]

Sites == {"YouTube", "Vimeo"}

VideoTypes == {"Trailer", "Teaser", "Clip"}

\* TmdbVideo: the fields the page reads, and the playback key
TmdbVideo == [site : Sites, type : VideoTypes, official : BOOLEAN, key : 1..(MaxVideos + 1)]

\* v => v.site === 'YouTube' && v.type === 'Trailer' && v.official
isOfficialTrailer(v) == v.site = "YouTube" /\ v.type = "Trailer" /\ v.official

\* v => v.site === 'YouTube' && v.type === 'Trailer'
isTrailer(v) == v.site = "YouTube" /\ v.type = "Trailer"

\* variant of isTeaser: the site is not looked at
isTeaserAnySite(v) == v.type = "Teaser"

\* v => v.site === 'YouTube' && v.type === 'Teaser'
isTeaser(v) == v.site = "YouTube" /\ v.type = "Teaser"

\* position of the first TRUE of a sequence of flags, 0 when there is none
RECURSIVE firstTrue(_, _)
firstTrue(flags, i) ==
  IF i > Len(flags) THEN 0
  ELSE IF flags[i] THEN i
  ELSE firstTrue(flags, i + 1)

\* list.map(pred): the flags of the elements a predicate accepts
OfficialTrailerFlags(list) == [k \in 1..Len(list) |-> isOfficialTrailer(list[k])]

TrailerFlags(list) == [k \in 1..Len(list) |-> isTrailer(list[k])]

TeaserFlags(list) == [k \in 1..Len(list) |-> isTeaser(list[k])]

\* Array.prototype.find: the first element the predicate accepts
find(list, accepts) ==
  LET i == firstTrue(accepts, 1)
  IN  IF i = 0 THEN undefined ELSE list[i]

\* a || b on find results
orElse(a, b) == IF a # undefined THEN a ELSE b

\* variant of pickMainTrailer: one scan that accepts a video of any tier
pickMainTrailerFirstOfAnyTier(list) ==
  find(list, [k \in 1..Len(list) |->
                OfficialTrailerFlags(list)[k] \/ TrailerFlags(list)[k] \/ TeaserFlags(list)[k]])

\* videos.find(official trailer) || videos.find(trailer) || videos.find(teaser)
pickMainTrailer(list) ==
  orElse(find(list, OfficialTrailerFlags(list)),
         orElse(find(list, TrailerFlags(list)), find(list, TeaserFlags(list))))

\* video lists with the position as playback key
VideoLists ==
  UNION {{list \in [1..n -> TmdbVideo] : \A i \in 1..n : list[i].key = i} : n \in 0..MaxVideos}

InitTrailer ==
  /\ videos \in VideoLists
  /\ mainTrailer = [rendered |-> FALSE]
  /\ NavIdle
  /\ HomeIdle
  /\ currentPage = 1
  /\ totalPages = 1
  /\ pageNumbers = <<>>
  /\ pages = <<>>
  /\ rendered = FALSE
  /\ DetailIdle
  /\ ServerIdle
  /\ HeaderIdle
  /\ ImageIdle

\* const mainTrailer = videos.find(...) || videos.find(...) || videos.find(...)
RenderTrailer ==
  /\ mainTrailer = [rendered |-> FALSE]
  /\ mainTrailer' = pickMainTrailer(videos)
  /\ UNCHANGED videos
  /\ UNCHANGED <<pagesVars, navVars, homeVars, detailVars, serverVars, headerVars, imageVars>>

NextTrailer == RenderTrailer

SpecTrailer == InitTrailer /\ [][NextTrailer]_vars

TrailerRendered == mainTrailer # [rendered |-> FALSE]

\* positions of the videos of a tier
OfficialTrailers == {i \in 1..Len(videos) : videos[i].site = "YouTube" /\ videos[i].type = "Trailer" /\ videos[i].official}

Trailers == {i \in 1..Len(videos) : videos[i].site = "YouTube" /\ videos[i].type = "Trailer"}

Teasers == {i \in 1..Len(videos) : videos[i].site = "YouTube" /\ videos[i].type = "Teaser"}

Lowest(S) == CHOOSE i \in S : \A j \in S : i <= j

\* C8: the main trailer is the first official YouTube Trailer of the list if
\* there is one anywhere, otherwise the first YouTube Trailer, otherwise the
\* first YouTube Teaser; a lower tier is never chosen while a higher tier has
\* a video, whatever the positions.
C8_TierPriority ==
  TrailerRendered =>
    /\ OfficialTrailers # {} => mainTrailer = videos[Lowest(OfficialTrailers)]
    /\ (OfficialTrailers = {} /\ Trailers # {}) => mainTrailer = videos[Lowest(Trailers)]
    /\ (Trailers = {} /\ Teasers # {}) => mainTrailer = videos[Lowest(Teasers)]

C8_Witness ==
  /\ TrailerRendered /\ Len(videos) = 3
  /\ videos[1].site = "YouTube" /\ videos[1].type = "Teaser"
  /\ videos[2].site = "YouTube" /\ videos[2].type = "Trailer" /\ ~videos[2].official
  /\ videos[3].site = "YouTube" /\ videos[3].type = "Trailer" /\ videos[3].official
  /\ mainTrailer = videos[3]

\* C9: trailer selection yields absent exactly when no video is a YouTube
\* Trailer or Teaser; otherwise it yields one element of the list, which is
\* a YouTube Trailer or Teaser (never another site, never a Clip).
C9_TotalSelection ==
  TrailerRendered =>
    /\ (mainTrailer = undefined) <=> (Trailers \union Teasers = {})
    /\ mainTrailer # undefined =>
         /\ \E i \in 1..Len(videos) : videos[i] = mainTrailer
         /\ mainTrailer.site = "YouTube"
         /\ mainTrailer.type \in {"Trailer", "Teaser"}

C9_Witness ==
  /\ TrailerRendered /\ Len(videos) = 2
  /\ videos[1].site = "Vimeo" /\ videos[1].type = "Trailer"
  /\ videos[2].site = "YouTube" /\ videos[2].type = "Teaser"
  /\ mainTrailer = videos[2]

(***************************************************************************)
(* MediaDetailPage: the effect that fetches details and videos             *)
(***************************************************************************)
\* route parameters the page is opened with
Routes ==
  { [mediaType |-> "movie", id |-> "1"],
    [mediaType |-> "tv", id |-> "2"],
    [mediaType |-> "bogus", id |-> "1"] }

\* playback keys of the videos of a title
KeyOf(r) == IF r.id = "1" THEN 1 ELSE 2

\* results the videos request of a title can carry
ProviderVideos(r) ==
  { <<>>,
    <<[site |-> "YouTube", type |-> "Trailer", official |-> TRUE, key |-> KeyOf(r)]>>,
    <<[site |-> "Vimeo", type |-> "Trailer", official |-> FALSE, key |-> KeyOf(r)],
      [site |-> "YouTube", type |-> "Teaser", official |-> FALSE, key |-> KeyOf(r)]>>,
    <<[site |-> "YouTube", type |-> "Clip", official |-> TRUE, key |-> KeyOf(r)]>> }

\* fetch() rejects: network failure
Rejected == {[kind |-> "rejected", message |-> m] : m \in {"Failed to fetch", ""}}

\* a non-2xx answer: a JSON body with or without an error field, or a body
\* that is not JSON
NotOk ==
  {[kind |-> "notOk", error |-> e] :
     e \in {"Failed to fetch media details or videos.", ""}}
  \union {[kind |-> "notOkUndecodable"]}

\* a 2xx answer whose body is not JSON
OkUndecodable == {[kind |-> "okUndecodable"]}

\* answers to /api/media-details?mediaType=..&id=.. ; the route answers 400
\* to a mediaType other than movie and tv
MediaAnswers(r) ==
  Rejected \union NotOk \union OkUndecodable
  \union (IF r.mediaType \in {"movie", "tv"} THEN {[kind |-> "ok", body |-> r]} ELSE {})

\* answers to /api/media-details?mediaType=..&id=..&videos=true ; a 2xx body
\* may lack results
VideosAnswers(r) ==
  Rejected \union NotOk \union OkUndecodable
  \union (IF r.mediaType \in {"movie", "tv"}
          THEN {[kind |-> "ok", hasResults |-> TRUE, results |-> list] : list \in ProviderVideos(r)}
               \union {[kind |-> "ok", hasResults |-> FALSE, results |-> <<>>]}
          ELSE {})

JsonSyntaxError == "Unexpected token < in JSON at position 0"

\* the message of the error thrown inside try while the details are fetched
\* (lines 37-39), "" with nothing thrown being told apart by MediaThrows
MediaThrows(answer) == answer.kind # "ok"

MediaThrown(answer) ==
  CASE answer.kind = "rejected" -> answer.message
    [] answer.kind = "notOk" ->
         IF answer.error # "" THEN answer.error ELSE "Failed to fetch media details"
    [] OTHER -> JsonSyntaxError

\* something is thrown inside try while the videos are fetched (lines 42-49)
VideosThrows(answer) == answer.kind \in {"rejected", "okUndecodable", "notOkUndecodable"}

VideosThrown(answer) ==
  IF answer.kind = "rejected" THEN answer.message ELSE JsonSyntaxError

\* catch (err): setError(err.message || 'An unexpected error occurred.')
Caught(message) ==
  [message |-> IF message # "" THEN message ELSE "An unexpected error occurred."]

\* variant of AfterFinally: setLoading(false) as the last statement of try
\* instead of in finally
AfterTryOnly(current, threw) == IF threw THEN current ELSE FALSE

\* finally { setLoading(false) }: the loading flag once try or catch is left
AfterFinally(current, threw) == FALSE

\* variant of DetailView: the media check comes before the error check
DetailViewMediaFirst ==
  IF notFoundCalled THEN "notFound"
  ELSE IF loading THEN "loading"
  ELSE IF media # null THEN "content"
  ELSE IF error # null THEN "error"
  ELSE "notFound"

\* what the component renders for its state
DetailView ==
  IF notFoundCalled THEN "notFound"
  ELSE IF loading THEN "loading"
  ELSE IF error # null THEN "error"
  ELSE IF media = null THEN "notFound"
  ELSE "content"

SetRun(i, run) == [runs EXCEPT ![i] = run]

InitDetail ==
  /\ route \in Routes
  /\ media = null
  /\ videos = <<>>
  /\ mainTrailer = pickMainTrailer(<<>>)
  /\ loading = TRUE
  /\ error = null
  /\ notFoundCalled = FALSE
  /\ effectDue = TRUE
  /\ runs = <<>>
  /\ NavIdle
  /\ HomeIdle
  /\ ServerIdle
  /\ HeaderIdle
  /\ ImageIdle
  /\ currentPage = 1
  /\ totalPages = 1
  /\ pageNumbers = <<>>
  /\ pages = <<>>
  /\ rendered = FALSE

\* useEffect(..., [mediaType, id]) up to the first await of fetchMediaAndVideos
RunEffect ==
  /\ effectDue
  /\ effectDue' = FALSE
  /\ IF route.mediaType = "" \/ route.id = ""
     THEN /\ notFoundCalled' = TRUE
          /\ UNCHANGED <<loading, error, runs>>
     ELSE /\ loading' = TRUE
          /\ error' = null
          /\ runs' = Append(runs, [route |-> route, pc |-> "mediaFetch",
                                   mediaAnswer |-> null, videosAnswer |-> null])
          /\ UNCHANGED notFoundCalled
  /\ UNCHANGED <<route, media, videos, mainTrailer>>
  /\ UNCHANGED <<pagesVars, navVars, homeVars, serverVars, headerVars, imageVars>>

\* the details fetch of run i settles: lines 37-42, or catch and finally
MediaResponse(i, answer) ==
  /\ runs[i].pc = "mediaFetch"
  /\ IF MediaThrows(answer)
     THEN /\ error' = Caught(MediaThrown(answer))
          /\ loading' = AfterFinally(loading, TRUE)
          /\ runs' = SetRun(i, [runs[i] EXCEPT !.pc = "done", !.mediaAnswer = answer])
          /\ UNCHANGED media
     ELSE /\ media' = answer.body
          /\ runs' = SetRun(i, [runs[i] EXCEPT !.pc = "videosFetch", !.mediaAnswer = answer])
          /\ UNCHANGED <<error, loading>>
  /\ UNCHANGED <<route, videos, mainTrailer, notFoundCalled, effectDue>>
  /\ UNCHANGED <<pagesVars, navVars, homeVars, serverVars, headerVars, imageVars>>

\* the videos fetch of run i settles: lines 43-49, or catch, then finally
VideosResponse(i, answer) ==
  /\ runs[i].pc = "videosFetch"
  /\ runs' = SetRun(i, [runs[i] EXCEPT !.pc = "done", !.videosAnswer = answer])
  /\ loading' = AfterFinally(loading, VideosThrows(answer))
  /\ IF VideosThrows(answer)
     THEN /\ error' = Caught(VideosThrown(answer))
          /\ UNCHANGED <<videos, mainTrailer>>
     ELSE /\ videos' = IF answer.kind = "ok" /\ answer.hasResults THEN answer.results ELSE <<>>
          /\ mainTrailer' = pickMainTrailer(videos')
          /\ UNCHANGED error
  /\ UNCHANGED <<route, media, notFoundCalled, effectDue>>
  /\ UNCHANGED <<pagesVars, navVars, homeVars, serverVars, headerVars, imageVars>>

\* the user opens another title: the params change and the effect is due again
RouteChange(r) ==
  /\ r # route
  /\ ~effectDue
  /\ Len(runs) < MaxRuns
  /\ route' = r
  /\ effectDue' = TRUE
  /\ UNCHANGED <<media, videos, mainTrailer, loading, error, notFoundCalled, runs>>
  /\ UNCHANGED <<pagesVars, navVars, homeVars, serverVars, headerVars, imageVars>>

NextDetail ==
  \/ RunEffect
  \/ \E i \in 1..Len(runs) : \E answer \in MediaAnswers(runs[i].route) : MediaResponse(i, answer)
  \/ \E i \in 1..Len(runs) : \E answer \in VideosAnswers(runs[i].route) : VideosResponse(i, answer)
  \/ \E r \in Routes : RouteChange(r)

SpecDetail == InitDetail /\ [][NextDetail]_vars

\* the effect ran once, for the current route, and that run is over
SingleRunDone ==
  /\ Len(runs) = 1 /\ ~effectDue
  /\ runs[1].route = route /\ runs[1].pc = "done"

VideosFailed(run) ==
  /\ run.mediaAnswer # null /\ run.mediaAnswer.kind = "ok"
  /\ run.videosAnswer # null
  /\ run.videosAnswer.kind \in {"rejected", "notOk", "notOkUndecodable", "okUndecodable"}

\* C10: when the details fetch of a title succeeds and its videos fetch fails
\* in any way (non-2xx answer, network failure, undecodable body), the view
\* renders the media details with the no-trailer fallback and no page-level
\* error.
C10_VideosFailureDegrades ==
  (SingleRunDone /\ VideosFailed(runs[1]))
    => (/\ DetailView = "content"
        /\ media = route
        /\ mainTrailer = undefined
        /\ error = null)

\* the part of C10 the code satisfies: a non-2xx videos answer with a JSON body
C10_NonOkJsonDegrades ==
  (SingleRunDone /\ VideosFailed(runs[1]) /\ runs[1].videosAnswer.kind = "notOk")
    => (/\ DetailView = "content"
        /\ media = route
        /\ mainTrailer = undefined
        /\ error = null)

\* a step in which run i, started for a title that is no longer the current
\* route, receives an answer
StaleAnswer(i) ==
  /\ Len(runs') = Len(runs)
  /\ runs'[i] # runs[i]
  /\ runs[i].route # route

\* C11: a fetch result that arrives after the params changed to another title
\* is discarded: it changes none of media, videos, loading and error.
C11_StaleResultDiscarded ==
  [][\A i \in 1..Len(runs) :
       StaleAnswer(i) => UNCHANGED <<media, videos, loading, error>>]_vars

\* the requests a run of fetchMediaAndVideos has sent when it is at pc: the
\* videos request is sent after the details answer was awaited and was ok
Issued(run) ==
  IF run.pc = "mediaFetch" THEN {"details"}
  ELSE IF run.pc = "videosFetch" THEN {"details", "videos"}
  ELSE IF run.mediaAnswer.kind = "ok" THEN {"details", "videos"}
  ELSE {"details"}

\* C17: all fetches of the detail view are issued before any result is
\* awaited: a run that waits for the details answer has already sent the
\* videos request.
C17_FetchesIssuedTogether ==
  \A i \in 1..Len(runs) :
    runs[i].pc = "mediaFetch" => Issued(runs[i]) = {"details", "videos"}

DetailsFailed(run) == run.mediaAnswer # null /\ run.mediaAnswer.kind # "ok"

\* C18: when the details fetch of the latest run failed (non-2xx answer or a
\* thrown fetch), the view is out of the loading state and renders the error
\* message and nothing else, also while media of an earlier fetch is held.
C18_DetailsFailureShowsError ==
  (runs # <<>> /\ DetailsFailed(runs[Len(runs)]))
    => (/\ ~loading
        /\ error # null
        /\ DetailView = "error")

C18_Witness ==
  /\ Len(runs) = 2
  /\ DetailsFailed(runs[2])
  /\ runs[2].route = route
  /\ media # null
  /\ DetailView = "error"

AllSettled ==
  /\ runs # <<>>
  /\ ~effectDue
  /\ \A i \in 1..Len(runs) : runs[i].pc = "done"

\* C19: once every fetch the mounted view issued has resolved or rejected,
\* the view is out of the loading state and renders one of the error
\* message, not-found and the media content, the content only with media.
C19_SettledLeavesLoading ==
  AllSettled
    => (/\ ~loading
        /\ DetailView \in {"error", "notFound", "content"}
        /\ (DetailView = "content" => media # null /\ error = null)
        /\ (DetailView = "error" => error # null))

C19_Witness ==
  /\ AllSettled
  /\ Len(runs) = 2
  /\ runs[1].videosAnswer # null /\ runs[1].videosAnswer.kind = "rejected"
  /\ runs[2].mediaAnswer.kind = "notOkUndecodable"
  /\ ~loading

(***************************************************************************)
(* Server side: fetchFromTmdb and the functions built on it, the          *)
(* media-details route and the server-rendered pages, with a provider     *)
(* that may fail. Each behaviour follows one invocation.                   *)
(***************************************************************************)
MaxQueryLen == 2

\* variant of moduleLoads: the module does not test the environment
moduleLoadsUnchecked(environment) == TRUE

\* if (!process.env.TMDB_API_KEY) throw ...: the module loads without throwing
moduleLoads(environment) ==
  has(environment, <<"TMDB_API_KEY">>) /\ get(environment, <<"TMDB_API_KEY">>) # <<>>

\* const API_KEY = process.env.TMDB_API_KEY, appended to a URL as a string
API_KEY ==
  IF has(env, <<"TMDB_API_KEY">>) THEN get(env, <<"TMDB_API_KEY">>) ELSE <<"undefined">>

Fulfilled(value) == [state |-> "fulfilled", value |-> value]

RejectedWith(reason) == [state |-> "rejected", reason |-> reason]

\* the URL fetchFromTmdb builds: the endpoint, api_key first, then params
Request(endpoint, params) ==
  [endpoint |-> endpoint, searchParams |-> <<<<<<"api_key">>, API_KEY>>>> \o params]

StatusTexts == {"Not Found", ""}

\* bodies of a non-2xx answer: not JSON, JSON without status_message, JSON
\* with an empty or a non-empty status_message
ErrorBodies ==
  { [decodable |-> FALSE, hasMessage |-> FALSE, status_message |-> ""],
    [decodable |-> TRUE, hasMessage |-> FALSE, status_message |-> ""],
    [decodable |-> TRUE, hasMessage |-> TRUE, status_message |-> ""],
    [decodable |-> TRUE, hasMessage |-> TRUE,
     status_message |-> "The resource you requested could not be found."] }

\* JSON payloads of a 2xx answer of an endpoint
Payloads(endpoint) ==
  { [page |-> 1, results |-> <<>>, total_pages |-> 1, total_results |-> 0],
    [page |-> 1, results |-> <<[item |-> endpoint]>>, total_pages |-> 2, total_results |-> 1] }

\* what fetch(url) of an endpoint can settle with: a transport failure, a
\* non-2xx response, a 2xx response with a JSON body or with another body
ProviderAnswers(endpoint) ==
  {[kind |-> "rejected"]}
  \union {[kind |-> "notOk", statusText |-> t, body |-> b] : t \in StatusTexts, b \in ErrorBodies}
  \union {[kind |-> "ok", decodable |-> TRUE, payload |-> p] : p \in Payloads(endpoint)}
  \union {[kind |-> "ok", decodable |-> FALSE, payload |-> null]}

\* the TypeError a failed fetch rejects with
TransportError == [name |-> "TypeError", message |-> <<"fetch failed">>]

\* the SyntaxError response.json() rejects with
BodySyntaxError == [name |-> "SyntaxError", message |-> <<JsonSyntaxError>>]

\* errorData of line 58: the decoded body, or the fallback of .catch
errorDataOf(answer) ==
  IF answer.body.decodable THEN answer.body
  ELSE [decodable |-> FALSE, hasMessage |-> TRUE, status_message |-> "Unknown error from TMDB"]

\* variant of fetchFromTmdbOutcome: the error message takes
\* errorData.status_message alone, without || response.statusText
fetchFromTmdbOutcomeNoStatusText(endpoint, answer) ==
  IF answer.kind = "rejected" THEN RejectedWith(TransportError)
  ELSE IF answer.kind = "notOk"
       THEN RejectedWith([name |-> "Error",
                          message |-> <<"Failed to fetch data from TMDB: ",
                                        errorDataOf(answer).status_message>>])
  ELSE IF answer.decodable THEN Fulfilled(answer.payload)
  ELSE RejectedWith(BodySyntaxError)

\* how the promise of fetchFromTmdb(endpoint, params) settles for an answer
\* of the provider; catch rethrows what it caught
fetchFromTmdbOutcome(endpoint, answer) ==
  IF answer.kind = "rejected" THEN RejectedWith(TransportError)
  ELSE IF answer.kind = "notOk"
       THEN LET errorData == errorDataOf(answer)
            IN  RejectedWith(
                  [name |-> "Error",
                   message |-> <<"Failed to fetch data from TMDB: ",
                                 IF errorData.hasMessage /\ errorData.status_message # ""
                                 THEN errorData.status_message
                                 ELSE answer.statusText>>])
  ELSE IF answer.decodable THEN Fulfilled(answer.payload)
  ELSE RejectedWith(BodySyntaxError)

\* String(page) of a number that may be NaN
pageString(n) == IF n.nan THEN <<"NaN">> ELSE toString(n.v)

\* the result searchMovies / searchTvShows return without a request
EmptyResult == [page |-> 1, results |-> <<>>, total_pages |-> 0, total_results |-> 0]

\* if (!query) return ...: the search functions go on to the provider
searchSends(query) == query # <<>>

searchEndpoint(kind) == IF kind = "movie" THEN <<"/search/movie">> ELSE <<"/search/tv">>

\* requests searchMovies / searchTvShows (kind) send for a query and a page
searchRequests(kind, query, page) ==
  IF searchSends(query)
  THEN <<Request(searchEndpoint(kind), <<<<<<"query">>, query>>, <<<<"page">>, pageString(page)>>>>)>>
  ELSE <<>>

\* how the promise of searchMovies / searchTvShows settles
searchOutcome(kind, query, answer) ==
  IF searchSends(query) THEN fetchFromTmdbOutcome(searchEndpoint(kind), answer)
  ELSE Fulfilled(EmptyResult)

RECURSIVE DigitPrefix(_)
DigitPrefix(s) ==
  IF s # <<>> /\ Head(s) \in DigitSet THEN <<Head(s)>> \o DigitPrefix(Tail(s)) ELSE <<>>

\* parseInt(string, 10): leading blanks skipped, an optional sign, then the
\* longest run of digits; NaN without a digit
parseInt(s) ==
  LET t    == TrimLeft(s)
      body == IF t # <<>> /\ Head(t) \in {"-", "+"} THEN Tail(t) ELSE t
      ds   == DigitPrefix(body)
  IN  IF ds = <<>> THEN NaN
      ELSE Num(IF Head(t) = "-" THEN 0 - digitsValue(ds) ELSE digitsValue(ds))

\* searchParams.key || fallback
paramOr(params, key, fallback) ==
  IF has(params, <<key>>) /\ get(params, <<key>>) # <<>> THEN get(params, <<key>>)
  ELSE fallback

\* Promise.all settles with the values when every promise is fulfilled and
\* with the reason of rejected promise k otherwise
PromiseAll(outcomes, k) ==
  IF \A i \in 1..Len(outcomes) : outcomes[i].state = "fulfilled"
  THEN Fulfilled([i \in 1..Len(outcomes) |-> outcomes[i].value])
  ELSE RejectedWith(outcomes[k].reason)

\* the promises that may win the race to reject
Rejections(outcomes) ==
  IF \A i \in 1..Len(outcomes) : outcomes[i].state = "fulfilled" THEN {1}
  ELSE {i \in 1..Len(outcomes) : outcomes[i].state = "rejected"}

\* one server render of SearchPage (the revision with pagination) for its
\* searchParams and the provider's answers to the two searches
SearchPage(params, answers) ==
  LET searchQuery == paramOr(params, "query", <<>>)
      current     == parseInt(paramOr(params, "page", <<"1">>))
      default     == [page |-> 1, results |-> <<>>, total_pages |-> 1, total_results |-> 0]
      outcomes    == <<searchOutcome("movie", searchQuery, answers[1]),
                       searchOutcome("tv", searchQuery, answers[2])>>
      all         == PromiseAll(outcomes, CHOOSE k \in Rejections(outcomes) : TRUE)
      fetched     == searchQuery # <<>> /\ all.state = "fulfilled"
      moviesResponse  == IF fetched THEN all.value[1] ELSE default
      tvShowsResponse == IF fetched THEN all.value[2] ELSE default
      failure     == IF searchQuery # <<>> /\ all.state = "rejected"
                     THEN [message |-> "Failed to fetch search results. Please try again later."]
                     ELSE null
      hasResults  == moviesResponse.results # <<>> \/ tvShowsResponse.results # <<>>
  IN  [searchQuery |-> searchQuery,
       currentPage |-> current,
       enterTerm   |-> searchQuery = <<>>,
       error       |-> failure,
       noResults   |-> searchQuery # <<>> /\ ~hasResults /\ failure = null,
       movies      |-> moviesResponse.results,
       tvShows     |-> tvShowsResponse.results,
       totalPages  |-> Max(moviesResponse.total_pages, tvShowsResponse.total_pages)]

\* the requests that render sends: both searches are called before the await
SearchPageRequests(params) ==
  LET searchQuery == paramOr(params, "query", <<>>)
      current     == parseInt(paramOr(params, "page", <<"1">>))
  IN  IF searchQuery # <<>>
      THEN searchRequests("movie", searchQuery, current)
           \o searchRequests("tv", searchQuery, current)
      ELSE <<>>

\* `/${mediaType}/${id}` and `/${mediaType}/${id}/videos`
mediaEndpoint(mediaType, id, fetchVideos) ==
  <<"/">> \o mediaType \o <<"/">> \o id \o (IF fetchVideos THEN <<"/videos">> ELSE <<>>)

\* getMediaDetails / getMediaVideos: the requests they send
getMediaRequests(mediaType, id, fetchVideos) ==
  IF mediaType = <<>> \/ id = <<>> THEN <<>>
  ELSE <<Request(mediaEndpoint(mediaType, id, fetchVideos), <<>>)>>

\* getMediaDetails / getMediaVideos: how their promise settles
getMediaOutcome(mediaType, id, fetchVideos, answer) ==
  IF mediaType = <<>> \/ id = <<>>
  THEN RejectedWith([name |-> "Error",
                     message |-> <<IF fetchVideos
                                   THEN "mediaType and id are required to get media videos."
                                   ELSE "mediaType and id are required to get media details.">>])
  ELSE fetchFromTmdbOutcome(mediaEndpoint(mediaType, id, fetchVideos), answer)

\* NextResponse.json(body, { status })
NextResponse(status, body) == [status |-> status, body |-> body]

\* variant of routeValidation: only the presence of the parameters is tested
routeValidationPresenceOnly(mediaType, id) ==
  IF mediaType = <<>> \/ id = <<>>
  THEN NextResponse(400, [error |-> "mediaType and id parameters are required."])
  ELSE null

\* the two early returns of GET, null when the parameters pass; a parameter
\* that is absent reads as null and is as falsy as the empty string
routeValidation(mediaType, id) ==
  IF mediaType = <<>> \/ id = <<>>
  THEN NextResponse(400, [error |-> "mediaType and id parameters are required."])
  ELSE IF mediaType # <<"movie">> /\ mediaType # <<"tv">>
       THEN NextResponse(400, [error |-> "Invalid mediaType. Must be 'movie' or 'tv'."])
  ELSE null

\* searchParams.get('videos') === 'true'
fetchVideosOf(params) == has(params, <<"videos">>) /\ get(params, <<"videos">>) = <<"true">>

\* the requests GET of /api/media-details sends to the provider
GETRequests(params) ==
  LET mediaType == paramOr(params, "mediaType", <<>>)
      id        == paramOr(params, "id", <<>>)
  IN  IF routeValidation(mediaType, id) # null THEN <<>>
      ELSE getMediaRequests(mediaType, id, fetchVideosOf(params))

\* the response of GET of /api/media-details
GET(params, answer) ==
  LET mediaType == paramOr(params, "mediaType", <<>>)
      id        == paramOr(params, "id", <<>>)
      outcome   == getMediaOutcome(mediaType, id, fetchVideosOf(params), answer)
  IN  IF routeValidation(mediaType, id) # null THEN routeValidation(mediaType, id)
      ELSE IF outcome.state = "fulfilled" THEN NextResponse(200, outcome.value)
      ELSE NextResponse(500, [error |-> "Failed to fetch media details or videos."])

HomeEndpoints == <<<<"/trending/movie/week">>, <<"/trending/tv/week">>, <<"/movie/now_playing">>>>

\* getTrendingMovies(page), getTrendingTvShows(page), getNowPlayingMovies(page)
pagedRequest(endpoint, page) == Request(endpoint, <<<<<<"page">>, pageString(page)>>>>)

\* the three requests HomePage with moviePage / tvPage / carouselPage sends
HomePageRequests(params) ==
  << pagedRequest(HomeEndpoints[1], pageParam(params, "moviePage")),
     pagedRequest(HomeEndpoints[2], pageParam(params, "tvPage")),
     pagedRequest(HomeEndpoints[3], pageParam(params, "carouselPage")) >>

\* total_pages || 1
orOne(n) == IF n = 0 THEN 1 ELSE n

\* one server render of HomePage with moviePage / tvPage / carouselPage when
\* the provider may fail: Promise.all is awaited outside of any try, promise
\* k being the one whose rejection settles it
HomePageRender(params, answers, k) ==
  LET outcomes == [i \in 1..3 |-> fetchFromTmdbOutcome(HomeEndpoints[i], answers[i])]
      all      == PromiseAll(outcomes, k)
  IN  IF all.state = "rejected" THEN all
      ELSE [state |-> "rendered",
            view |-> [trendingMovies   |-> all.value[1].results,
                      trendingTvShows  |-> all.value[2].results,
                      nowPlayingMovies |-> all.value[3].results,
                      totalMoviePages    |-> orOne(all.value[1].total_pages),
                      totalTvPages       |-> orOne(all.value[2].total_pages),
                      totalCarouselPages |-> orOne(all.value[3].total_pages)]]

\* the three requests HomePage with the single page parameter sends
HomePageSingleRequests(params) ==
  << pagedRequest(HomeEndpoints[1], parseInt(paramOr(params, "page", <<"1">>))),
     pagedRequest(HomeEndpoints[2], parseInt(paramOr(params, "page", <<"1">>))),
     pagedRequest(HomeEndpoints[3], Num(1)) >>

\* one server render of HomePage with the single page parameter: the
\* responses keep their defaults when Promise.all rejects
HomePageSingleRender(params, answers) ==
  LET outcomes == [i \in 1..3 |-> fetchFromTmdbOutcome(HomeEndpoints[i], answers[i])]
      all      == PromiseAll(outcomes, CHOOSE k \in Rejections(outcomes) : TRUE)
      default  == [page |-> 1, results |-> <<>>, total_pages |-> 1, total_results |-> 0]
      response == [i \in 1..3 |-> IF all.state = "fulfilled" THEN all.value[i] ELSE default]
  IN  [state |-> "rendered",
       view |-> [trendingMovies   |-> response[1].results,
                 trendingTvShows  |-> response[2].results,
                 nowPlayingMovies |-> response[3].results,
                 totalPagesForTrending |-> Max(response[1].total_pages, response[2].total_pages)]]

\* search queries: strings of blanks and letters
Queries == UNION {[1..n -> {" ", "d"}] : n \in 0..MaxQueryLen}

Optional(pairs) == {<<>>} \union {<<pair>> : pair \in pairs}

SearchPageParams ==
  {q \o pg : q \in Optional({<<<<"query">>, query>> : query \in Queries}),
             pg \in Optional({<<<<"page">>, <<"2">>>>, <<<<"page">>, <<"0">>>>})}

RouteParams ==
  {mt \o id \o v :
     mt \in Optional({<<<<"mediaType">>, t>> : t \in {<<"movie">>, <<"tv">>, <<"bogus">>, <<>>}}),
     id \in Optional({<<<<"id">>, <<"1">>>>, <<<<"id">>, <<>>>>}),
     v  \in Optional({<<<<"videos">>, <<"true">>>>, <<<<"videos">>, <<"1">>>>})}

HomePageParams == Optional({<<<<"moviePage">>, <<"2">>>>})

HomePageSingleParams == Optional({<<<<"page">>, <<"2">>>>})

\* the environments the server may be started in: no key, an empty key, a key
Environments ==
  {<<>>, <<<<<<"TMDB_API_KEY">>, <<>>>>>>, <<<<<<"TMDB_API_KEY">>, <<"k">>>>>>}

InitServer ==
  /\ call = [handler |-> "none"]
  /\ sent = <<>>
  /\ result = null
  /\ env \in Environments
  /\ HeaderIdle
  /\ ImageIdle
  /\ NavIdle
  /\ HomeIdle
  /\ TrailerIdle
  /\ DetailIdle
  /\ currentPage = 1
  /\ totalPages = 1
  /\ pageNumbers = <<>>
  /\ pages = <<>>
  /\ rendered = FALSE

Invoked == call.handler # "none"

\* a function of the module can be called: the import did not throw and the
\* invocation under study has not been made
Callable == ~Invoked /\ moduleLoads(env)

\* a direct call of fetchFromTmdb(endpoint)
CallFetchFromTmdb(endpoint, answer) ==
  /\ Callable
  /\ call' = [handler |-> "fetchFromTmdb", endpoint |-> endpoint, answer |-> answer]
  /\ sent' = <<Request(endpoint, <<>>)>>
  /\ result' = fetchFromTmdbOutcome(endpoint, answer)
  /\ UNCHANGED <<env, pagesVars, navVars, homeVars, trailerVars, detailVars, headerVars, imageVars>>

\* a call of searchMovies (kind movie) or searchTvShows (kind tv)
CallSearch(kind, query, page, answer) ==
  /\ Callable
  /\ call' = [handler |-> "search", kind |-> kind, query |-> query, page |-> page,
              answer |-> answer]
  /\ sent' = searchRequests(kind, query, Num(page))
  /\ result' = searchOutcome(kind, query, answer)
  /\ UNCHANGED <<env, pagesVars, navVars, homeVars, trailerVars, detailVars, headerVars, imageVars>>

\* a request for /search
RenderSearchPage(params, answers) ==
  /\ Callable
  /\ call' = [handler |-> "SearchPage", searchParams |-> params, answers |-> answers]
  /\ sent' = SearchPageRequests(params)
  /\ result' = [state |-> "rendered", view |-> SearchPage(params, answers)]
  /\ UNCHANGED <<env, pagesVars, navVars, homeVars, trailerVars, detailVars, headerVars, imageVars>>

\* a request for /api/media-details
RouteGET(params, answer) ==
  /\ Callable
  /\ call' = [handler |-> "GET", searchParams |-> params, answer |-> answer]
  /\ sent' = GETRequests(params)
  /\ result' = GET(params, answer)
  /\ UNCHANGED <<env, pagesVars, navVars, homeVars, trailerVars, detailVars, headerVars, imageVars>>

\* a request for / served by HomePage with moviePage / tvPage / carouselPage
RenderHomePage(params, answers, k) ==
  /\ Callable
  /\ call' = [handler |-> "HomePage", searchParams |-> params, answers |-> answers]
  /\ sent' = HomePageRequests(params)
  /\ result' = HomePageRender(params, answers, k)
  /\ UNCHANGED <<env, pagesVars, navVars, homeVars, trailerVars, detailVars, headerVars, imageVars>>

\* a request for / served by HomePage with the single page parameter
RenderHomePageSingle(params, answers) ==
  /\ Callable
  /\ call' = [handler |-> "HomePageSingle", searchParams |-> params, answers |-> answers]
  /\ sent' = HomePageSingleRequests(params)
  /\ result' = HomePageSingleRender(params, answers)
  /\ UNCHANGED <<env, pagesVars, navVars, homeVars, trailerVars, detailVars, headerVars, imageVars>>

HomeAnswers ==
  {<<a1, a2, a3>> : a1 \in ProviderAnswers(HomeEndpoints[1]),
                     a2 \in ProviderAnswers(HomeEndpoints[2]),
                     a3 \in ProviderAnswers(HomeEndpoints[3])}

SearchAnswers ==
  {<<a1, a2>> : a1 \in ProviderAnswers(searchEndpoint("movie")),
                a2 \in ProviderAnswers(searchEndpoint("tv"))}

NextServer ==
  \/ \E endpoint \in {HomeEndpoints[1], mediaEndpoint(<<"movie">>, <<"1">>, FALSE)} :
       \E answer \in ProviderAnswers(endpoint) : CallFetchFromTmdb(endpoint, answer)
  \/ \E kind \in {"movie", "tv"}, query \in Queries, page \in 1..2 :
       \E answer \in ProviderAnswers(searchEndpoint(kind)) : CallSearch(kind, query, page, answer)
  \/ \E params \in SearchPageParams, answers \in SearchAnswers : RenderSearchPage(params, answers)
  \/ \E params \in RouteParams :
       \E answer \in ProviderAnswers(mediaEndpoint(paramOr(params, "mediaType", <<>>),
                                                   paramOr(params, "id", <<>>),
                                                   fetchVideosOf(params))) :
         RouteGET(params, answer)
  \/ \E params \in HomePageParams, answers \in HomeAnswers :
       \E k \in Rejections([i \in 1..3 |-> fetchFromTmdbOutcome(HomeEndpoints[i], answers[i])]) :
         RenderHomePage(params, answers, k)
  \/ \E params \in HomePageSingleParams, answers \in HomeAnswers :
       RenderHomePageSingle(params, answers)

SpecServer == InitServer /\ [][NextServer]_vars

IsBlank(query) == TrimLeft(query) = <<>>

\* C12: a search whose query is empty or only whitespace sends no request to
\* the provider and yields the empty result; the search page shows the
\* 'enter a search term' state and no error for an empty or absent query.
C12_BlankQueryNoRequest ==
  /\ (call.handler = "search" /\ IsBlank(call.query))
       => (sent = <<>> /\ result = Fulfilled(EmptyResult))
  /\ (call.handler = "SearchPage" /\ IsBlank(paramOr(call.searchParams, "query", <<>>)))
       => sent = <<>>
  /\ (call.handler = "SearchPage" /\ paramOr(call.searchParams, "query", <<>>) = <<>>)
       => (result.view.enterTerm /\ result.view.error = null)

\* the part of C12 the code satisfies: the empty and the absent query
C12_EmptyQueryNoRequest ==
  /\ (call.handler = "search" /\ call.query = <<>>)
       => (sent = <<>> /\ result = Fulfilled(EmptyResult))
  /\ (call.handler = "SearchPage" /\ paramOr(call.searchParams, "query", <<>>) = <<>>)
       => (sent = <<>> /\ result.view.enterTerm /\ result.view.error = null)

\* the provider call that got this answer failed: transport failure, non-2xx
\* status, or a 2xx answer whose body cannot be parsed
ProviderFailed(answer) == answer.kind # "ok" \/ ~answer.decodable

RouteInvalid(params) ==
  \/ paramOr(params, "mediaType", <<>>) = <<>>
  \/ paramOr(params, "id", <<>>) = <<>>
  \/ paramOr(params, "mediaType", <<>>) \notin {<<"movie">>, <<"tv">>}

\* C13: the route answers 400 and sends nothing to the provider exactly when
\* mediaType or id is missing or mediaType is neither movie nor tv; for valid
\* parameters it sends one request to the provider and answers 500 when that
\* call fails and 200 with the provider's payload otherwise.
C13_RouteValidation ==
  call.handler = "GET"
    => (/\ RouteInvalid(call.searchParams) <=> result.status = 400
        /\ RouteInvalid(call.searchParams) <=> sent = <<>>
        /\ ~RouteInvalid(call.searchParams)
             => (/\ sent = <<Request(mediaEndpoint(get(call.searchParams, <<"mediaType">>),
                                                   get(call.searchParams, <<"id">>),
                                                   fetchVideosOf(call.searchParams)), <<>>)>>
                 /\ ProviderFailed(call.answer) => result.status = 500
                 /\ ~ProviderFailed(call.answer)
                      => (result.status = 200 /\ result.body = call.answer.payload)))

C13_Witness ==
  /\ call.handler = "GET"
  /\ call.searchParams = <<<<<<"mediaType">>, <<"bogus">>>>, <<<<"id">>, <<"1">>>>>>
  /\ result.status = 400
  /\ sent = <<>>

HasStatusMessage(answer) ==
  answer.body.decodable /\ answer.body.hasMessage /\ answer.body.status_message # ""

\* C14: for a non-2xx answer the error of fetchFromTmdb carries the
\* provider's status_message when the response has one and the HTTP status
\* text otherwise, also when the error body cannot be decoded.
C14_StatusMessageElseStatusText ==
  (call.handler = "fetchFromTmdb" /\ call.answer.kind = "notOk")
    => (/\ result.state = "rejected"
        /\ result.reason.message[2] =
             IF HasStatusMessage(call.answer) THEN call.answer.body.status_message
             ELSE call.answer.statusText)

\* C14 as the code has it: for a non-2xx answer the error of fetchFromTmdb
\* carries the provider's status_message when the body decodes and has one,
\* the HTTP status text when the body decodes without one, and the fixed
\* text 'Unknown error from TMDB' when the body cannot be decoded.
C14_StatusMessageElseStatusTextOrUnknown ==
  (call.handler = "fetchFromTmdb" /\ call.answer.kind = "notOk")
    => (/\ result.state = "rejected"
        /\ result.reason.message[2] =
             IF HasStatusMessage(call.answer) THEN call.answer.body.status_message
             ELSE IF call.answer.body.decodable THEN call.answer.statusText
             ELSE "Unknown error from TMDB")

C14_Witness ==
  /\ call.handler = "fetchFromTmdb"
  /\ call.answer.kind = "notOk"
  /\ ~call.answer.body.decodable
  /\ call.answer.statusText = "Not Found"
  /\ result.reason.message = <<"Failed to fetch data from TMDB: ", "Unknown error from TMDB">>

\* String.prototype.includes
Includes(s, sub) ==
  \E i \in 1..(Len(s) - Len(sub) + 1) : SubSeq(s, i, i + Len(sub) - 1) = sub

\* C15: every failure of a provider call reaches the caller of fetchFromTmdb
\* as the same kind of error, labelled as the client's and naming the
\* endpoint; no raw transport or parsing exception comes through.
C15_UniformUpstreamError ==
  (call.handler = "fetchFromTmdb" /\ ProviderFailed(call.answer))
    => (/\ result.state = "rejected"
        /\ result.reason.name = "Error"
        /\ result.reason.message[1] = "Failed to fetch data from TMDB: "
        /\ Includes(result.reason.message, call.endpoint))

Range(list) == {list[i] : i \in 1..Len(list)}

\* the items the rendered page shows
Shown ==
  IF result.state # "rendered" THEN {}
  ELSE IF call.handler = "SearchPage"
       THEN Range(result.view.movies) \union Range(result.view.tvShows)
  ELSE Range(result.view.trendingMovies) \union Range(result.view.trendingTvShows)
       \union Range(result.view.nowPlayingMovies)

\* C16: when one of the parallel fetches of the home page or of the search
\* page fails, the items of every sibling fetch that succeeded are rendered.
C16_SiblingResultsRendered ==
  (/\ call.handler \in {"HomePage", "HomePageSingle", "SearchPage"}
   /\ Len(sent) = Len(call.answers)
   /\ \E j \in 1..Len(call.answers) : ProviderFailed(call.answers[j]))
    => \A i \in 1..Len(call.answers) :
         ~ProviderFailed(call.answers[i])
           => Range(call.answers[i].payload.results) \subseteq Shown

PageWithin(cp, tp) == ~cp.nan /\ 1 <= cp.v /\ cp.v <= Max(tp, 1)

\* C20: whatever the page query parameter holds (absent, 0, negative, more
\* than the provider's total_pages), the current page the home page fetches
\* and hands to each pagination control lies in 1..max(totalPages, 1).
C20_CurrentPageInRange ==
  home.mounted
    => (/\ PageWithin(home.currentMoviePage, home.totalMoviePages)
        /\ PageWithin(home.currentTvPage, home.totalTvPages)
        /\ PageWithin(home.trendingMoviesData.page, home.totalMoviePages)
        /\ PageWithin(home.trendingTvShowsData.page, home.totalTvPages))

\* the environment holds a non-empty credential
HasCredential ==
  has(env, <<"TMDB_API_KEY">>) /\ get(env, <<"TMDB_API_KEY">>) # <<>>

\* C21: every request sent to the provider carries the credential of the
\* environment as its api_key query parameter, and with no credential in the
\* environment the module does not load, so that nothing is ever sent.
C21_CredentialOnEveryRequest ==
  /\ \A i \in 1..Len(sent) :
       /\ HasCredential
       /\ getAll(sent[i].searchParams, <<"api_key">>) = <<get(env, <<"TMDB_API_KEY">>)>>
  /\ ~HasCredential => (~Invoked /\ sent = <<>>)

C21_Witness ==
  /\ call.handler = "search"
  /\ Len(sent) = 1
  /\ sent[1].searchParams[1] = <<<<"api_key">>, <<"k">>>>
  /\ Len(sent[1].searchParams) = 3

(***************************************************************************)
(* Header: mobile menu, search input, route changes and hiding on scroll.  *)
(* Two revisions: "scroll" tracks the scroll position, "plain" does not.   *)
(***************************************************************************)
HeaderPaths == {"/", "/search"}

\* values of window.scrollY around the threshold of handleScroll
ScrollPositions == {0, 100, 101, 200}

\* encodeURIComponent on the alphabet
ComponentCode(c) ==
  CASE c = " " -> <<"%", "2", "0">>
    [] c = "%" -> <<"%", "2", "5">>
    [] c = "&" -> <<"%", "2", "6">>
    [] c = "+" -> <<"%", "2", "B">>
    [] c = "=" -> <<"%", "3", "D">>
    [] OTHER -> <<c>>

RECURSIVE encodeURIComponent(_)
encodeURIComponent(s) ==
  IF s = <<>> THEN <<>> ELSE ComponentCode(Head(s)) \o encodeURIComponent(Tail(s))

\* String.prototype.trim
trim(s) == TrimRight(TrimLeft(s))

\* variant of menuAfterToggleSearch: the menu is left as it is
menuAfterToggleSearchKept(menu, visible) == menu

\* toggleSearchInput: isMobileMenuOpen after the click; opening the input
\* closes an open menu
menuAfterToggleSearch(menu, visible) ==
  IF ~visible /\ menu THEN FALSE ELSE menu

\* variant of termAfterToggleMenu: the search term is left as it is
termAfterToggleMenuKept(term, visible) == term

\* toggleMobileMenu: searchTerm after the click; a visible input is hidden
\* and its term cleared
termAfterToggleMenu(term, visible) == IF visible THEN <<>> ELSE term

\* variant of visibleAfterScroll: an open menu or search input is not looked at
visibleAfterScrollIgnoringOpen(currentScrollY, last, menu, visible) ==
  IF currentScrollY > 100
  THEN (IF currentScrollY > last THEN FALSE ELSE TRUE)
  ELSE TRUE

\* handleScroll: isVisible after a scroll event at currentScrollY
visibleAfterScroll(currentScrollY, last, menu, visible) ==
  IF currentScrollY > 100 /\ ~menu /\ ~visible
  THEN (IF currentScrollY > last THEN FALSE ELSE TRUE)
  ELSE TRUE

\* variant of visibleAfterRouteChange: the effect leaves isVisible alone
visibleAfterRouteChangeKept(current) == current

\* the pathname effect of the "scroll" revision: setIsVisible(true)
visibleAfterRouteChange(current) == TRUE

\* the form submits: the input is required, so an empty value is held back
\* by the browser
canSubmit(term) == term # <<>>

\* handleSearchSubmit navigates: always in the "scroll" revision, for a
\* term that is not blank in the "plain" revision
submitNavigates(rev, term) == rev = "scroll" \/ trim(term) # <<>>

searchUrl(term) == <<"/search?query=">> \o encodeURIComponent(trim(term))

InitHeader ==
  /\ headerRevision \in {"scroll", "plain"}
  /\ isMobileMenuOpen = FALSE
  /\ isSearchInputVisible = FALSE
  /\ searchTerm = <<>>
  /\ isVisible = TRUE
  /\ scrollY \in ScrollPositions
  /\ lastScrollY = IF headerRevision = "scroll" THEN scrollY ELSE 0
  /\ headerPath \in HeaderPaths
  /\ headerOp = "mount"
  /\ headerPush = <<>>
  /\ NavIdle
  /\ HomeIdle
  /\ TrailerIdle
  /\ DetailIdle
  /\ ServerIdle
  /\ ImageIdle
  /\ currentPage = 1
  /\ totalPages = 1
  /\ pageNumbers = <<>>
  /\ pages = <<>>
  /\ rendered = FALSE

HeaderOthersUnchanged ==
  UNCHANGED <<pagesVars, navVars, homeVars, trailerVars, detailVars, serverVars, imageVars>>

\* a click on the hamburger button or on a link of the mobile menu
toggleMobileMenu ==
  /\ headerOp' = "toggleMobileMenu"
  /\ isMobileMenuOpen' = ~isMobileMenuOpen
  /\ isSearchInputVisible' = FALSE
  /\ searchTerm' = termAfterToggleMenu(searchTerm, isSearchInputVisible)
  /\ UNCHANGED <<headerRevision, isVisible, lastScrollY, scrollY, headerPath, headerPush>>
  /\ HeaderOthersUnchanged

\* a click on the search icon
toggleSearchInput ==
  /\ headerOp' = "toggleSearchInput"
  /\ isSearchInputVisible' = ~isSearchInputVisible
  /\ isMobileMenuOpen' = menuAfterToggleSearch(isMobileMenuOpen, isSearchInputVisible)
  /\ searchTerm' = IF isSearchInputVisible THEN <<>> ELSE searchTerm
  /\ UNCHANGED <<headerRevision, isVisible, lastScrollY, scrollY, headerPath, headerPush>>
  /\ HeaderOthersUnchanged

\* onChange of the search input while it is shown
Type(value) ==
  /\ isSearchInputVisible
  /\ headerOp' = "type"
  /\ searchTerm' = value
  /\ UNCHANGED <<headerRevision, isMobileMenuOpen, isSearchInputVisible, isVisible,
                 lastScrollY, scrollY, headerPath, headerPush>>
  /\ HeaderOthersUnchanged

\* onSubmit of the search form
handleSearchSubmit ==
  /\ canSubmit(searchTerm)
  /\ headerOp' = "submit"
  /\ IF submitNavigates(headerRevision, searchTerm)
     THEN /\ headerPush' = searchUrl(searchTerm)
          /\ isSearchInputVisible' = FALSE
          /\ searchTerm' = <<>>
     ELSE UNCHANGED <<headerPush, isSearchInputVisible, searchTerm>>
  /\ UNCHANGED <<headerRevision, isMobileMenuOpen, isVisible, lastScrollY, scrollY, headerPath>>
  /\ HeaderOthersUnchanged

\* the pathname changes and the [pathname] effect runs; the navigation may
\* have moved the window to the top
HeaderRouteChange(path, top) ==
  /\ path # headerPath
  /\ headerPath' = path
  /\ headerOp' = "route"
  /\ isMobileMenuOpen' = FALSE
  /\ isSearchInputVisible' = FALSE
  /\ searchTerm' = <<>>
  /\ scrollY' = IF top THEN 0 ELSE scrollY
  /\ IF headerRevision = "scroll"
     THEN /\ isVisible' = visibleAfterRouteChange(isVisible)
          /\ lastScrollY' = scrollY'
     ELSE UNCHANGED <<isVisible, lastScrollY>>
  /\ UNCHANGED <<headerRevision, headerPush>>
  /\ HeaderOthersUnchanged

\* a scroll event at position y; only the "scroll" revision listens
Scroll(y) ==
  /\ scrollY' = y
  /\ IF headerRevision = "scroll"
     THEN /\ headerOp' = "scroll"
          /\ isVisible' = visibleAfterScroll(y, lastScrollY, isMobileMenuOpen, isSearchInputVisible)
          /\ lastScrollY' = y
     ELSE UNCHANGED <<headerOp, isVisible, lastScrollY>>
  /\ UNCHANGED <<headerRevision, isMobileMenuOpen, isSearchInputVisible, searchTerm,
                 headerPath, headerPush>>
  /\ HeaderOthersUnchanged

NextHeader ==
  \/ toggleMobileMenu
  \/ toggleSearchInput
  \/ \E value \in Queries : Type(value)
  \/ handleSearchSubmit
  \/ \E path \in HeaderPaths, top \in BOOLEAN : HeaderRouteChange(path, top)
  \/ \E y \in ScrollPositions : Scroll(y)

SpecHeader == InitHeader /\ [][NextHeader]_vars

\* C22: the mobile menu and the search input are never both open.
C22_MenuSearchExclusive == ~(isMobileMenuOpen /\ isSearchInputVisible)

C22_Witness ==
  /\ headerOp = "toggleSearchInput"
  /\ isSearchInputVisible
  /\ ~isMobileMenuOpen
  /\ headerPush # <<>>

\* C23: after a scroll event the header is hidden exactly when the position
\* is above 100, neither the menu nor the search input is open, and the
\* position is greater than the one recorded before the event.
C23_HiddenOnScrollDown ==
  [][headerOp' = "scroll"
       => (isVisible' = ~(/\ scrollY' > 100
                           /\ ~isMobileMenuOpen
                           /\ ~isSearchInputVisible
                           /\ scrollY' > lastScrollY))]_vars

C23_Witness ==
  /\ headerOp = "scroll"
  /\ isSearchInputVisible
  /\ isVisible
  /\ scrollY = 200
  /\ lastScrollY = 200

\* C26: a change of the pathname closes the mobile menu, hides the search
\* input, clears the search term and makes the header visible, whatever the
\* state before the change.
C26_RouteChangeResets ==
  [][headerPath' # headerPath
       => (/\ ~isMobileMenuOpen'
           /\ ~isSearchInputVisible'
           /\ searchTerm' = <<>>
           /\ isVisible')]_vars

C26_Witness ==
  /\ headerOp = "route"
  /\ headerRevision = "scroll"
  /\ scrollY = 200
  /\ isVisible
  /\ headerPush # <<>>

\* C29: the search term is empty whenever the search input is hidden.
C29_HiddenInputHasNoTerm == ~isSearchInputVisible => searchTerm = <<>>

C29_Witness ==
  /\ headerOp = "toggleMobileMenu"
  /\ isMobileMenuOpen
  /\ ~isSearchInputVisible
  /\ searchTerm = <<>>
  /\ headerPush # <<>>

(***************************************************************************)
(* Images: the URL resolver getImageUrl, the ClientImage wrapper and the   *)
(* onError handlers of MediaCard and MovieCarousel.  A URL is a sequence   *)
(* of pieces; a path is null, undefined or a string.                       *)
(***************************************************************************)
Str(s) == [string |-> s]

TMDB_IMAGE_BASE_URL == <<"https://image.tmdb.org/t/p/">>

PlaceholderTail == <<"/1f2937/FFFFFF?text=No+Image">>

\* the placeholder of each definition of getImageUrl
PlaceholderOf(resolver) ==
  CASE resolver = "MediaCard" ->
         <<"https://placehold.co/png/", "342", "x", "513">> \o PlaceholderTail
    [] resolver = "MovieCarousel" ->
         <<"https://placehold.co/png/", "1920", "x", "1080">> \o PlaceholderTail
    [] resolver = "page" ->
         <<"https://placehold.co/png/", "500", "x", "750">> \o PlaceholderTail
    [] resolver = "pagePlain" ->
         <<"https://placehold.co/", "500", "x", "750">> \o PlaceholderTail

\* !path
falsyPath(path) == path = null \/ path = undefined \/ path = Str(<<>>)

\* a value inside a template literal
templated(v) ==
  IF v = null THEN <<"null">>
  ELSE IF v = undefined THEN <<"undefined">>
  ELSE v.string

\* variant of getImageUrl: the path is not tested
getImageUrlUnguarded(resolver, path, size) ==
  TMDB_IMAGE_BASE_URL \o size \o templated(path)

\* getImageUrl(path, size) of the given definition
getImageUrl(resolver, path, size) ==
  IF falsyPath(path)
  THEN PlaceholderOf(resolver)
  ELSE TMDB_IMAGE_BASE_URL \o size \o templated(path)

\* String(v).replace('px', ''): the first "px" is removed
removePx(s) ==
  IF \E i \in 1..Len(s) : s[i] = "px"
  THEN LET i == CHOOSE k \in 1..Len(s) : s[k] = "px" /\ \A j \in 1..(k - 1) : s[j] # "px"
       IN SubSeq(s, 1, i - 1) \o SubSeq(s, i + 1, Len(s))
  ELSE s

\* width ? String(width).replace('px', '') : default
finalDimension(d, default) ==
  IF d = undefined \/ d = Str(<<>>) \/ d = Str(<<"0">>) THEN default ELSE removePx(d.string)

\* getPlaceholderImageUrl(width, height) of ClientImage
getPlaceholderImageUrl(width, height) ==
  <<"https://placehold.co/png/">> \o finalDimension(width, <<"500">>) \o <<"x">>
    \o finalDimension(height, <<"750">>) \o PlaceholderTail

ImageNotAvailable == <<"Image not available">>

ImagePaths == {null, undefined, Str(<<>>), Str(<<"/abc.jpg">>), Str(<<"/b.jpg">>)}

Sizes == {<<"w342">>, <<"w500">>, <<"w1280">>, <<"original">>}

Alts == {<<"A Poster">>, <<"B Poster">>}

\* width and height as the detail page passes them: none with fill, numbers,
\* or strings with a unit
Dimensions ==
  { <<undefined, undefined>>,
    <<Str(<<"500">>), Str(<<"750">>)>>,
    <<Str(<<"342", "px">>), Str(<<"513", "px">>)>> }

\* which component shows the image and which getImageUrl builds its src
ImageUses ==
  { [kind |-> "ClientImage", resolver |-> "page"],
    [kind |-> "ClientImage", resolver |-> "pagePlain"],
    [kind |-> "MediaCard", resolver |-> "MediaCard"],
    [kind |-> "MovieCarousel", resolver |-> "MovieCarousel"] }

imageProps(use, path, size, alt, dims) ==
  [mounted |-> TRUE,
   kind |-> use.kind,
   resolver |-> use.resolver,
   path |-> path,
   size |-> size,
   src |-> getImageUrl(use.resolver, path, size),
   alt |-> alt,
   width |-> dims[1],
   height |-> dims[2]]

InitImage ==
  /\ \E use \in ImageUses, path \in ImagePaths, size \in Sizes, alt \in Alts, dims \in Dimensions :
       /\ (use.kind # "ClientImage" => dims = <<undefined, undefined>>)
       /\ props = imageProps(use, path, size, alt, dims)
  /\ imgSrc = props.src
  /\ imgAlt = props.alt
  /\ errored = FALSE
  /\ HeaderIdle
  /\ NavIdle
  /\ HomeIdle
  /\ TrailerIdle
  /\ DetailIdle
  /\ ServerIdle
  /\ currentPage = 1
  /\ totalPages = 1
  /\ pageNumbers = <<>>
  /\ pages = <<>>
  /\ rendered = FALSE

ImageOthersUnchanged ==
  UNCHANGED <<pagesVars, navVars, homeVars, trailerVars, detailVars, serverVars, headerVars>>

\* the image element reports a load error: handleError of ClientImage, or
\* the onError of MediaCard and MovieCarousel, which write to the element
handleError ==
  /\ props.mounted
  /\ imgSrc' = IF props.kind = "ClientImage"
               THEN getPlaceholderImageUrl(props.width, props.height)
               ELSE getImageUrl(props.resolver, null, props.size)
  /\ imgAlt' = ImageNotAvailable
  /\ errored' = TRUE
  /\ UNCHANGED props
  /\ ImageOthersUnchanged

\* the detail page renders the same ClientImage with the values of another
\* title: useState(props.src) and useState(props.alt) keep their first value
PropsChange(path, alt) ==
  /\ props.mounted
  /\ props.kind = "ClientImage"
  /\ props' = [props EXCEPT !.path = path,
                            !.src = getImageUrl(props.resolver, path, props.size),
                            !.alt = alt]
  /\ props' # props
  /\ UNCHANGED <<imgSrc, imgAlt, errored>>
  /\ ImageOthersUnchanged

NextImage ==
  \/ handleError
  \/ \E path \in ImagePaths, alt \in Alts : PropsChange(path, alt)

SpecImage == InitImage /\ [][NextImage]_vars

\* C24: after a load error the displayed source is the placeholder URL and
\* the alt text is 'Image not available', also after further errors; before
\* any error the displayed source and alt are the ones passed in.
C24_PlaceholderAfterError ==
  props.mounted =>
    IF errored
    THEN /\ imgSrc[1] \in {"https://placehold.co/png/", "https://placehold.co/"}
         /\ imgAlt = ImageNotAvailable
    ELSE /\ imgSrc = props.src
         /\ imgAlt = props.alt

\* C25: for a present path the resolver returns base, size and path
\* concatenated; for an absent path (null, undefined or empty) it returns a
\* fixed placeholder that contains neither the base nor a part of the input.
C25_ResolverConcatenatesOrPlaceholder ==
  props.mounted =>
    IF props.path \in {null, undefined, Str(<<>>)}
    THEN /\ props.src \in {PlaceholderOf(r) : r \in {"MediaCard", "MovieCarousel", "page", "pagePlain"}}
         /\ \A other \in ImagePaths, size \in Sizes :
              falsyPath(other) => getImageUrl(props.resolver, other, size) = props.src
         /\ \A i \in 1..Len(props.src) :
              /\ <<props.src[i]>> # TMDB_IMAGE_BASE_URL
              /\ <<props.src[i]>> # props.size
              /\ props.src[i] \notin {"null", "undefined"}
    ELSE props.src = <<"https://image.tmdb.org/t/p/">> \o props.size \o props.path.string

C25_Witness ==
  /\ props.mounted
  /\ props.path = Str(<<"/abc.jpg">>)
  /\ props.size = <<"w342">>
  /\ props.src = <<"https://image.tmdb.org/t/p/", "w342", "/abc.jpg">>

\* a page sequence is well formed for tp pages: the page numbers increase
\* strictly and lie in 1..tp, an ellipsis has a page number on both sides,
\* and two neighbouring page numbers are separated by an ellipsis exactly
\* when they differ by more than 1
WellFormedPages(seq, tp) ==
  /\ \A i \in 1..Len(seq) :
       seq[i].kind = "page" => (seq[i].n >= 1 /\ seq[i].n <= tp)
  /\ \A i \in 1..Len(seq), j \in 1..Len(seq) :
       (i < j /\ seq[i].kind = "page" /\ seq[j].kind = "page") => seq[i].n < seq[j].n
  /\ \A i \in 1..Len(seq) :
       seq[i].kind = "ellipsis" =>
         /\ i > 1 /\ i < Len(seq)
         /\ seq[i - 1].kind = "page" /\ seq[i + 1].kind = "page"
         /\ seq[i + 1].n - seq[i - 1].n > 1
  /\ \A i \in 1..(Len(seq) - 1) :
       (seq[i].kind = "page" /\ seq[i + 1].kind = "page") => seq[i + 1].n - seq[i].n <= 1

\* C27: for 1 <= currentPage <= totalPages the sequence of getPageNumbers is
\* well formed: page numbers strictly increasing and within 1..totalPages,
\* an ellipsis between two neighbouring page numbers exactly when they
\* differ by more than 1.
C27_PageSequenceWellFormed ==
  (rendered /\ totalPages >= 1 /\ currentPage >= 1 /\ currentPage <= totalPages)
    => (/\ WellFormedPages(pageNumbers, totalPages)
        /\ WellFormedPages(pages, totalPages)
        /\ \A i \in 1..Len(pageNumbers) :
             pageNumbers[i].kind = "page" => canGoToPage(pageNumbers[i].n, totalPages))

C27_Witness ==
  /\ rendered
  /\ totalPages = 20
  /\ currentPage = 10
  /\ Cardinality({i \in 1..Len(pageNumbers) : pageNumbers[i].kind = "ellipsis"}) = 2
  /\ Cardinality({i \in 1..Len(pages) : pages[i].kind = "ellipsis"}) = 2

\* C28: whenever the detail view renders content, the details and the videos
\* it shows were fetched for the (mediaType, id) of the current route; a
\* trailer of one title is never shown with the details of another.
C28_ContentOfCurrentRoute ==
  (DetailView = "content" /\ ~effectDue)
    => (/\ media = route
        /\ \A i \in 1..Len(videos) : videos[i].key = KeyOf(route)
        /\ \A i \in 1..Len(videos) : videos[i].key = KeyOf(media))

\* C30: the control renders nothing when totalPages <= 1; otherwise Previous
\* is disabled exactly when currentPage <= 1 and Next exactly when
\* currentPage >= totalPages, and for 1 <= currentPage <= totalPages every
\* enabled Previous or Next click passes the range check of goToPage and
\* navigates to currentPage - 1 or currentPage + 1.
C30_PreviousNextClicks ==
  revision = "pageQueryParam" =>
    /\ controls.nothing <=> totalPages <= 1
    /\ ~controls.nothing =>
         /\ controls.previousDisabled <=> currentPage <= 1
         /\ controls.nextDisabled <=> currentPage >= totalPages
    /\ (lastOp \in {"previous", "next"} /\ currentPage >= 1 /\ currentPage <= totalPages)
         => (/\ lastTarget = (IF lastOp = "previous" THEN currentPage - 1 ELSE currentPage + 1)
             /\ lastTarget >= 1
             /\ lastTarget <= totalPages
             /\ pushed
             /\ getAll(URLSearchParams(search), <<pageQueryParam>>) = <<toString(lastTarget)>>)

C30_Witness ==
  /\ lastOp = "previous"
  /\ totalPages = 3
  /\ currentPage = 3
  /\ lastTarget = 2
  /\ pushed

====
